---- MODULE Spec2Model ----
(***************************************************************************)
(* Hybrid document managers (SequenceManager, StoryboardManager) over an   *)
(* Automerge document: the state cache, the topology cache, the bulk       *)
(* hydrate/reconcile path, the targeted put/delete path and the sync       *)
(* operations.                                                             *)
(*                                                                         *)
(* The CRDT engine is modelled by its contract: every write is an op with  *)
(* a Lamport id <<counter, actor>>; a put supersedes the ops it saw at the *)
(* same (object, key); a key's value is the live op with the largest id;   *)
(* merge is the union of two histories.  A Rust Option<T> held by a        *)
(* manager is a set with at most one element; a Result<T, E> likewise      *)
(* ({} is the Err).                                                        *)
(***************************************************************************)
EXTENDS Integers, Sequences, FiniteSets, TLC

\* Bounds of the model.
MaxSteps == 3
MaxActors == 3

Actors == 1..MaxActors

(***************************************************************************)
(* Engine: automerge::AutoCommit                                           *)
(***************************************************************************)
ROOT == <<0, 0>>
HEAD == <<0, 0>>

OpLess(a, b) == a[1] < b[1] \/ (a[1] = b[1] /\ a[2] < b[2])

StrV(s) == [t |-> "str", s |-> s, n |-> 0]
IntV(n) == [t |-> "int", s |-> "", n |-> n]
F64V(n) == [t |-> "f64", s |-> "", n |-> n]
Null == [t |-> "null", s |-> "", n |-> 0]
MapObj == [t |-> "map", s |-> "", n |-> 0]
ListObj == [t |-> "list", s |-> "", n |-> 0]

IsObject(val) == val.t \in {"map", "list"}

\* A set written out element by element (unions and differences are kept
\* enumerated so that a chain of writes stays flat).
Flat(S) == {x \in S : TRUE}

\* AutoCommit::new(): an empty document owned by a fresh actor.
NewDoc(actor) ==
    [actor |-> actor, clock |-> [a \in Actors |-> 0], ops |-> {}, elems |-> {}]

RECURSIVE SetMax(_)
SetMax(S) ==
    IF S = {} THEN 0
    ELSE LET smx == CHOOSE y \in S : TRUE
             smr == SetMax(S \ {smx})
         IN IF smx > smr THEN smx ELSE smr

MaxOp(doc) == SetMax({doc.clock[a] : a \in Actors})
NextId(doc) == <<MaxOp(doc) + 1, doc.actor>>
Tick(doc) == [doc EXCEPT !.clock[doc.actor] = MaxOp(doc) + 1]
Seen(doc, id) == id[1] <= doc.clock[id[2]]

LiveAt(doc, obj, key, elem) ==
    {o \in doc.ops : o.obj = obj /\ o.key = key /\ o.elem = elem}

Winner(S) == CHOOSE o \in S : \A p \in S : p = o \/ OpLess(p.id, o.id)

\* The winning op of the live ops of a key, as an Option.
WinnerOf(live) == IF live = {} THEN {} ELSE {Winner(live)}

\* ReadDoc::get on a map key: Option<(Value, ObjId)> as a set of at most one op.
Get(doc, obj, key) == WinnerOf(LiveAt(doc, obj, key, HEAD))

\* A put over the live ops of its key.  A put that would not change a
\* conflict-free value generates no op.
PutOver(doc, live, obj, key, elem, val) ==
    IF ~IsObject(val) /\ Cardinality(live) = 1 /\ (\A o \in live : o.val = val)
    THEN doc
    ELSE [Tick(doc) EXCEPT !.ops = Flat((doc.ops \ live) \cup
             {[obj |-> obj, key |-> key, elem |-> elem, id |-> NextId(doc), val |-> val]})]

PutAt(doc, obj, key, elem, val) ==
    PutOver(doc, LiveAt(doc, obj, key, elem), obj, key, elem, val)

\* The writes of one handler happen one after another: the documents after
\* each write, computed in that order.
Sequenced(docs) == \A i \in 1..Len(docs) : docs[i].actor \in Actors

\* Transactable::put(obj, key, scalar)
Put(doc, obj, key, val) == PutAt(doc, obj, key, HEAD, val)

\* Transactable::delete(obj, key): deleting an absent key generates no op.
DeleteLive(doc, live) ==
    IF live = {} THEN doc ELSE [Tick(doc) EXCEPT !.ops = Flat(doc.ops \ live)]

DeleteAt(doc, obj, key, elem) == DeleteLive(doc, LiveAt(doc, obj, key, elem))

Delete(doc, obj, key) == DeleteAt(doc, obj, key, HEAD)

\* The object at a map key, created if the key does not hold one of this type:
\* [doc, id].  The reconciler reuses an existing container.
EnsureOver(doc, got, obj, key, val) ==
    IF got # {} /\ (\A o \in got : o.val = val)
    THEN [doc |-> doc, id |-> (CHOOSE o \in got : TRUE).id]
    ELSE [doc |-> PutAt(doc, obj, key, HEAD, val), id |-> NextId(doc)]

EnsureObj(doc, obj, key, val) == EnsureOver(doc, Get(doc, obj, key), obj, key, val)

\* List objects (RGA): every element ever inserted keeps its place in elems;
\* an element is visible while some op on it is live.
RECURSIVE SortDesc(_)
SortDesc(S) ==
    IF S = {} THEN <<>>
    ELSE LET top == CHOOSE x \in S : \A y \in S : y = x \/ OpLess(y, x)
         IN <<top>> \o SortDesc(S \ {top})

Children(doc, obj, p) == {e.elem : e \in {x \in doc.elems : x.obj = obj /\ x.pred = p}}

RECURSIVE LinSeq(_, _, _)
LinSeq(doc, obj, ps) ==
    IF ps = <<>> THEN <<>>
    ELSE <<Head(ps)>> \o LinSeq(doc, obj, SortDesc(Children(doc, obj, Head(ps))))
                      \o LinSeq(doc, obj, Tail(ps))

ListOrder(doc, obj) == LinSeq(doc, obj, SortDesc(Children(doc, obj, HEAD)))

IsVisible(doc, obj, e) == LiveAt(doc, obj, "", e) # {}

RECURSIVE FilterVisible(_, _, _)
FilterVisible(doc, obj, es) ==
    IF es = <<>> THEN <<>>
    ELSE (IF IsVisible(doc, obj, Head(es)) THEN <<Head(es)>> ELSE <<>>)
         \o FilterVisible(doc, obj, Tail(es))

\* The visible element ids of a list, in document order.
ListElems(doc, obj) == FilterVisible(doc, obj, ListOrder(doc, obj))

\* The visible values of a list.
ValuesOf(doc, obj, es) == [i \in 1..Len(es) |-> Winner(LiveAt(doc, obj, "", es[i])).val]

ListValues(doc, obj) == ValuesOf(doc, obj, ListElems(doc, obj))

\* Transactable::insert(obj, index, scalar), index counted from 0.
InsertAfter(doc, obj, after, new, val) ==
    [Tick(doc) EXCEPT
       !.elems = Flat(doc.elems \cup {[obj |-> obj, elem |-> new, pred |-> after]}),
       !.ops = Flat(doc.ops \cup
                    {[obj |-> obj, key |-> "", elem |-> new, id |-> new, val |-> val]})]

Insert(doc, obj, index, val) ==
    InsertAfter(doc, obj, IF index = 0 THEN HEAD ELSE ListElems(doc, obj)[index], NextId(doc), val)

\* Transactable::put(list, index, scalar)
SetIndex(doc, obj, index, val) == PutAt(doc, obj, "", ListElems(doc, obj)[index + 1], val)

\* Transactable::delete(list, index)
DeleteIndex(doc, obj, index) == DeleteAt(doc, obj, "", ListElems(doc, obj)[index + 1])

\* Fault variant of merge: on a key both sides wrote, the receiving side's
\* value is kept.
Merge_keeping_own(doc, other) ==
    [actor |-> doc.actor,
     clock |-> [a \in Actors |-> IF doc.clock[a] >= other.clock[a]
                                 THEN doc.clock[a] ELSE other.clock[a]],
     ops |-> {o \in doc.ops \cup other.ops :
                 /\ (o \in doc.ops \/ ~Seen(doc, o.id))
                 /\ (o \in other.ops \/ ~Seen(other, o.id))
                 /\ (o \in doc.ops \/ LiveAt(doc, o.obj, o.key, o.elem) = {})},
     elems |-> Flat(doc.elems \cup other.elems)]

\* AutoCommit::merge: the union of the two histories.  An op stays live unless
\* one side has seen it and superseded it.
Merge(doc, other) ==
    [actor |-> doc.actor,
     clock |-> [a \in Actors |-> IF doc.clock[a] >= other.clock[a]
                                 THEN doc.clock[a] ELSE other.clock[a]],
     ops |-> {o \in doc.ops \cup other.ops :
                 /\ (o \in doc.ops \/ ~Seen(doc, o.id))
                 /\ (o \in other.ops \/ ~Seen(other, o.id))},
     elems |-> Flat(doc.elems \cup other.elems)]

\* Fault variant of save: the list elements are left out of the bytes.
Save_without_elems(doc) == [valid |-> TRUE, clock |-> doc.clock, ops |-> doc.ops, elems |-> {}]

\* AutoCommit::save: the whole history, without the local actor.
Save(doc) == [valid |-> TRUE, clock |-> doc.clock, ops |-> doc.ops, elems |-> doc.elems]

\* Bytes that are not a valid document or change-set.
Garbage == [valid |-> FALSE, clock |-> [a \in Actors |-> 0], ops |-> {}, elems |-> {}]

\* AutoCommit::load: Result<AutoCommit, _>; the loaded document gets a new actor.
Load(bytes, actor) ==
    IF bytes.valid
    THEN {[actor |-> actor, clock |-> bytes.clock, ops |-> bytes.ops, elems |-> bytes.elems]}
    ELSE {}

\* AutoCommit::get_heads: the version of the document.
Heads(doc) == doc.clock

NoHeads == [a \in Actors |-> 0]

Covers(heads, clock) == \A a \in Actors : clock[a] <= heads[a]

(***************************************************************************)
(* Sequence flavor: the typed snapshot (sequence/model.rs)                 *)
(***************************************************************************)
\* Node identifiers: a short one and a UUID-shaped (36-character) one.
N1 == "n1"
U2 == "6f9619ff-8b86-d011-b42d-00c04fc964ff"
NodeIds == {N1, U2}

\* str::len of the keys the model uses.
KeyLen(key) == IF key = U2 THEN 36 ELSE IF key = N1 THEN 2 ELSE 8

\* Option<T>::None in a snapshot; Some(v) is the scalar v itself.
NoneV == [t |-> "none", s |-> "", n |-> 0]

\* The nine GenerationSettings fields, in the order reconcile writes them.
SettingOrder ==
    <<"seed", "cfg", "num_steps", "model", "resolution", "width", "height", "duration", "fps">>
SettingKeys == {SettingOrder[i] : i \in 1..Len(SettingOrder)}

\* GenerationSettings::default(): every field None.
DefaultSettings == [k \in SettingKeys |-> NoneV]

\* GenerationNode::new(id, type_): status "pending", empty text, default
\* settings.  prompt stands for the plain String fields that only the bulk
\* path writes (id, type_, title, prompt, negative_prompt, notes, metadata).
NewNode == [status |-> "pending", prompt |-> "", settings |-> DefaultSettings]

\* DocumentRoot::default()
DefaultRoot == [sequence_order |-> <<>>, generations |-> <<>>]

\* v as i32: two's-complement wrap-around.  TLC's integers are 32 bits wide, so
\* the model scales the widths down: an i32 is 8 bits wide here (-128..127)
\* and an i64 is any integer of the model.
WrapI32(n) == ((n + 128) % 256) - 128

\* The scalar a get returned, NoneV when the key is absent.
Unwrap(S) == CHOOSE x \in S : TRUE
ScalarOf(got) == IF got = {} THEN NoneV ELSE Unwrap(got).val

\* The match arms of the four lenient readers.
AsI64(val) == IF val.t = "int" THEN IntV(val.n) ELSE NoneV
AsF64(val) == IF val.t \in {"f64", "int"} THEN F64V(val.n) ELSE NoneV
AsI32(wide) == IF wide.t = "int" THEN IntV(WrapI32(wide.n)) ELSE wide
\* Fault variant of the string reader: a null reads as a string.
AsString_of_null(val) == IF val.t \in {"str", "null"} THEN StrV(val.s) ELSE NoneV

AsString(val) == IF val.t = "str" THEN StrV(val.s) ELSE NoneV

hydrate_opt_i64(doc, obj, key) == AsI64(ScalarOf(Get(doc, obj, key)))

hydrate_opt_f64(doc, obj, key) == AsF64(ScalarOf(Get(doc, obj, key)))

\* Fault variant of hydrate_opt_i32: a checked conversion, None when the
\* value does not fit.
hydrate_opt_i32_checked(doc, obj, key) ==
    IF AsI64(ScalarOf(Get(doc, obj, key))).t = "int"
       /\ WrapI32(AsI64(ScalarOf(Get(doc, obj, key))).n) # AsI64(ScalarOf(Get(doc, obj, key))).n
    THEN NoneV
    ELSE AsI64(ScalarOf(Get(doc, obj, key)))

hydrate_opt_i32(doc, obj, key) == AsI32(AsI64(ScalarOf(Get(doc, obj, key))))

hydrate_opt_string(doc, obj, key) == AsString(ScalarOf(Get(doc, obj, key)))

\* impl Hydrate for GenerationSettings: never fails on a field.
HydrateSettings(doc, obj) ==
    [k \in SettingKeys |->
        CASE k = "seed" -> hydrate_opt_i64(doc, obj, k)
          [] k = "cfg" -> hydrate_opt_f64(doc, obj, k)
          [] k = "model" -> hydrate_opt_string(doc, obj, k)
          [] OTHER -> hydrate_opt_i32(doc, obj, k)]

\* Derived Hydrate of a required String field: Err unless the key holds a string.
HydrateString(doc, obj, key) ==
    {o.val.s : o \in {x \in Get(doc, obj, key) : x.val.t = "str"}}

\* The id of the object of the given type at a key, if the key holds one.
ObjAt(doc, obj, key, val) == {o.id : o \in {x \in Get(doc, obj, key) : x.val = val}}

\* Derived Hydrate of Vec<String>: Err unless the key holds a list of strings.
StringsOf(vals) ==
    IF \E i \in 1..Len(vals) : vals[i].t # "str" THEN {}
    ELSE {[i \in 1..Len(vals) |-> vals[i].s]}

HydrateStrings(doc, obj, key) ==
    UNION {StringsOf(ListValues(doc, lo)) : lo \in ObjAt(doc, obj, key, ListObj)}

\* A map of Results as the Result of a map: Err if any entry is.
Collect(results) ==
    IF \E k \in DOMAIN results : results[k] = {} THEN {}
    ELSE {[k \in DOMAIN results |-> Unwrap(results[k])]}

\* Derived Hydrate of GenerationNode: Result as a set.
NodeOf(status, prompt, settings) ==
    IF status = {} \/ prompt = {} \/ settings = {} THEN {}
    ELSE {[status |-> Unwrap(status), prompt |-> Unwrap(prompt), settings |-> Unwrap(settings)]}

HydrateNode(doc, obj) ==
    NodeOf(HydrateString(doc, obj, "status"), HydrateString(doc, obj, "prompt"),
           {HydrateSettings(doc, so) : so \in ObjAt(doc, obj, "settings", MapObj)})

\* The keys of a map object that hold a value.
MapKeys(doc, obj) == {o.key : o \in {x \in doc.ops : x.obj = obj /\ x.elem = HEAD}}

\* Derived Hydrate of HashMap<String, GenerationNode>.
HydrateNodes(doc, gens) ==
    Collect([k \in MapKeys(doc, gens) |->
                UNION {HydrateNode(doc, no) : no \in ObjAt(doc, gens, k, MapObj)}])

\* Derived Hydrate of DocumentRoot (autosurgeon::hydrate): Result as a set.
RootOf(order, generations) ==
    IF order = {} \/ generations = {} THEN {}
    ELSE {[sequence_order |-> Unwrap(order), generations |-> Unwrap(generations)]}

HydrateRoot(doc) ==
    RootOf(HydrateStrings(doc, ROOT, "sequence_order"),
           UNION {HydrateNodes(doc, go) : go \in ObjAt(doc, ROOT, "generations", MapObj)})

\* Fault variant of the settings reconcile: None is stored as a null.
ReconcileSetting_storing_null(doc, obj, key, v) ==
    IF v.t = "none" THEN Put(doc, obj, key, Null)
    ELSE Put(doc, obj, key, IF key = "cfg" THEN F64V(v.n)
                            ELSE IF key = "model" THEN StrV(v.s) ELSE IntV(v.n))

\* impl Reconcile for GenerationSettings: put if Some, delete if None.
ReconcileSetting(doc, obj, key, v) ==
    IF v.t = "none" THEN Delete(doc, obj, key)
    ELSE Put(doc, obj, key, IF key = "cfg" THEN F64V(v.n)
                            ELSE IF key = "model" THEN StrV(v.s) ELSE IntV(v.n))

RECURSIVE ReconcileSettings(_, _, _, _)
ReconcileSettings(doc, obj, settings, i) ==
    IF i > Len(SettingOrder) \/ ~Sequenced(<<doc>>) THEN doc
    ELSE ReconcileSettings(ReconcileSetting(doc, obj, SettingOrder[i], settings[SettingOrder[i]]),
                           obj, settings, i + 1)

\* Derived Reconcile of GenerationNode into its object at = [doc, id].
ReconcileSettingsAt(at, settings) == ReconcileSettings(at.doc, at.id, settings, 1)

ReconcileNodeAt(at, node) ==
    ReconcileSettingsAt(
        EnsureObj(Put(Put(at.doc, at.id, "status", StrV(node.status)),
                      at.id, "prompt", StrV(node.prompt)),
                  at.id, "settings", MapObj),
        node.settings)

ReconcileNode(doc, gens, id, node) == ReconcileNodeAt(EnsureObj(doc, gens, id, MapObj), node)

\* Reconcile of Vec<String> (no key): elements are updated in place, then the
\* tail is inserted or deleted.
RECURSIVE ReconcileSeq(_, _, _, _)
ReconcileFrom(doc, obj, items, i, oldlen) ==
    IF i > Len(items)
    THEN IF oldlen >= i THEN ReconcileSeq(DeleteIndex(doc, obj, i - 1), obj, items, i) ELSE doc
    ELSE IF i <= oldlen
         THEN ReconcileSeq(SetIndex(doc, obj, i - 1, StrV(items[i])), obj, items, i + 1)
         ELSE ReconcileSeq(Insert(doc, obj, i - 1, StrV(items[i])), obj, items, i + 1)

ReconcileSeq(doc, obj, items, i) ==
    ReconcileFrom(doc, obj, items, i, Len(ListElems(doc, obj)))

ReconcileSeqAt(at, items) ==
    IF ~Sequenced(<<at.doc>>) THEN at.doc ELSE ReconcileSeq(at.doc, at.id, items, 1)

\* A set of strings as a sequence, in a fixed order.
RECURSIVE SetToSeq(_)
SetToSeq(S) ==
    IF S = {} THEN <<>>
    ELSE LET first == CHOOSE y \in S : TRUE IN <<first>> \o SetToSeq(S \ {first})

\* Reconcile of HashMap<String, GenerationNode>: put every entry, then delete
\* the keys the map no longer has.
RECURSIVE ReconcileNodes(_, _, _, _)
ReconcileNodes(doc, gens, generations, ids) ==
    IF ids = <<>> \/ ~Sequenced(<<doc>>) THEN doc
    ELSE ReconcileNodes(ReconcileNode(doc, gens, Head(ids), generations[Head(ids)]),
                        gens, generations, Tail(ids))

RECURSIVE DeleteKeys(_, _, _)
DeleteKeys(doc, obj, keys) ==
    IF keys = <<>> \/ ~Sequenced(<<doc>>) THEN doc
    ELSE DeleteKeys(Delete(doc, obj, Head(keys)), obj, Tail(keys))

\* The keys of a map object that the reconciled map does not have, deleted.
PruneKeys(doc, obj, map) == DeleteKeys(doc, obj, SetToSeq(MapKeys(doc, obj) \ DOMAIN map))

ReconcileNodesAt(at, generations) ==
    IF ~Sequenced(<<at.doc>>) THEN at.doc
    ELSE PruneKeys(ReconcileNodes(at.doc, at.id, generations, SetToSeq(DOMAIN generations)),
                   at.id, generations)

\* Derived Reconcile of DocumentRoot (autosurgeon::reconcile).
ReconcileRoot(doc, root) ==
    ReconcileNodesAt(
        EnsureObj(ReconcileSeqAt(EnsureObj(doc, ROOT, "sequence_order", ListObj),
                                 root.sequence_order),
                  ROOT, "generations", MapObj),
        root.generations)

(***************************************************************************)
(* SequenceManager (sequence/manager.rs)                                   *)
(* A manager is [doc, cached_state, cached_generations_obj]; the two       *)
(* caches are Options.  An operation returns the manager it leaves behind  *)
(* with its CollabResult: ok, the error variant, and the number of engine  *)
(* puts and deletes the targeted path issued.                              *)
(***************************************************************************)
Done(m, puts, dels) == [m |-> m, ok |-> TRUE, err |-> "", puts |-> puts, dels |-> dels]
Fail(m, err) == [m |-> m, ok |-> FALSE, err |-> err, puts |-> 0, dels |-> 0]

\* Fault variant of new(): the default root is cached but not written.
seq_new_unwritten(actor) ==
    [doc |-> NewDoc(actor), cached_state |-> {DefaultRoot}, cached_generations_obj |-> {}]

\* SequenceManager::new(actor): the default root reconciled into a new document.
seq_new(actor) ==
    [doc |-> ReconcileRoot(NewDoc(actor), DefaultRoot),
     cached_state |-> {DefaultRoot},
     cached_generations_obj |-> {}]

\* Fault variant of from_bytes: the loaded manager starts with the caches of
\* new().
seq_from_bytes_warm(bytes, actor) ==
    {[doc |-> d, cached_state |-> {DefaultRoot}, cached_generations_obj |-> {}] : d \in Load(bytes, actor)}

\* SequenceManager::from_bytes: Result<Self> as a set.
seq_from_bytes(bytes, actor) ==
    {[doc |-> d, cached_state |-> {}, cached_generations_obj |-> {}] : d \in Load(bytes, actor)}

seq_save(m) == Save(m.doc)

seq_get_heads(m) == Heads(m.doc)

seq_invalidate_all_caches(m) ==
    [m EXCEPT !.cached_state = {}, !.cached_generations_obj = {}]

\* Fault variant of get_state: a cache miss also drops the topology handle.
seq_get_state_dropping_handle(m) ==
    IF m.cached_state # {} THEN [m |-> m, val |-> m.cached_state]
    ELSE [m |-> [m EXCEPT !.cached_state = HydrateRoot(m.doc), !.cached_generations_obj = {}],
          val |-> HydrateRoot(m.doc)]

\* SequenceManager::get_state: [m, val]; val is the Result (empty on a
\* hydration error).  On a cache miss the hydrated snapshot is cached.
Hydrated(m, state) == [m |-> [m EXCEPT !.cached_state = state], val |-> state]

seq_get_state(m) ==
    IF m.cached_state # {} THEN [m |-> m, val |-> m.cached_state]
    ELSE Hydrated(m, HydrateRoot(m.doc))

\* Vec::contains
Contains(seq, x) == \E i \in 1..Len(seq) : seq[i] = x

\* Vec::retain(|s| s != x)
RECURSIVE Retain(_, _)
Retain(seq, x) ==
    IF seq = <<>> THEN <<>>
    ELSE (IF Head(seq) = x THEN <<>> ELSE <<Head(seq)>>) \o Retain(Tail(seq), x)

\* HashMap::insert
MapInsert(map, key, value) ==
    [k \in (DOMAIN map) \cup {key} |-> IF k = key THEN value ELSE map[k]]

\* HashMap::remove
MapRemove(map, key) == [k \in (DOMAIN map) \ {key} |-> map[k]]

\* The closures the bulk operations hand to update_state, as data:
\* [f, id, key, v].
Mutation(f, id, key, v) == [f |-> f, id |-> id, key |-> key, v |-> v]

\* Fault variant of create_and_append's closure: the id is always appended.
create_and_append_f_appending(state, id, node) ==
    [sequence_order |-> Append(state.sequence_order, id),
     generations |-> MapInsert(state.generations, id, node)]

\* Fault variant of create_and_append's closure: the node is not stored.
create_and_append_f_order_only(state, id, node) ==
    [sequence_order |-> IF Contains(state.sequence_order, id) THEN state.sequence_order
                        ELSE Append(state.sequence_order, id),
     generations |-> state.generations]

\* create_and_append's closure
create_and_append_f(state, id, node) ==
    [sequence_order |-> IF Contains(state.sequence_order, id) THEN state.sequence_order
                        ELSE Append(state.sequence_order, id),
     generations |-> MapInsert(state.generations, id, node)]

\* Fault variant of delete_node's closure: the order list keeps the id.
delete_node_f_keeping_order(state, id) ==
    [sequence_order |-> state.sequence_order,
     generations |-> MapRemove(state.generations, id)]

\* Fault variant of delete_node's closure: the id leaves the order and the
\* node stays in generations.
delete_node_f_keeping_node(state, id) ==
    [state EXCEPT !.sequence_order = Retain(@, id)]

\* delete_node's closure
delete_node_f(state, id) ==
    [sequence_order |-> Retain(state.sequence_order, id),
     generations |-> MapRemove(state.generations, id)]

\* Fault variant of create_node's closure: the id is appended to the order
\* as well.
create_node_f_ordering(state, id, node) ==
    [state EXCEPT !.generations = MapInsert(@, id, node),
                  !.sequence_order = IF Contains(@, id) THEN @ ELSE Append(@, id)]

\* create_node's closure
create_node_f(state, id, node) ==
    [state EXCEPT !.generations = MapInsert(@, id, node)]

\* append_generation's closure
append_generation_f(state, id) ==
    [state EXCEPT !.sequence_order = IF Contains(@, id) THEN @ ELSE Append(@, id)]

\* remove_from_order's closure
remove_from_order_f(state, id) ==
    [state EXCEPT !.sequence_order = Retain(@, id)]

\* Vec::insert(index, x) and Vec::remove(index), index counted from 0
InsertAt(seq, index, x) == SubSeq(seq, 1, index) \o <<x>> \o SubSeq(seq, index + 1, Len(seq))
RemoveAt(seq, index) == SubSeq(seq, 1, index) \o SubSeq(seq, index + 2, Len(seq))

\* Fault variant of insert_at_position's closure: no contains() test.
insert_at_position_f_unchecked(state, index, id) ==
    IF index <= Len(state.sequence_order)
    THEN [state EXCEPT !.sequence_order = InsertAt(@, index, id)]
    ELSE state

\* Fault variant of insert_at_position's closure: the index must be that of
\* an element, so nothing is inserted at the end.
insert_at_position_f_strict(state, index, id) ==
    IF index < Len(state.sequence_order) /\ ~Contains(state.sequence_order, id)
    THEN [state EXCEPT !.sequence_order = InsertAt(@, index, id)]
    ELSE state

\* insert_at_position's closure
insert_at_position_f(state, index, id) ==
    IF index <= Len(state.sequence_order) /\ ~Contains(state.sequence_order, id)
    THEN [state EXCEPT !.sequence_order = InsertAt(@, index, id)]
    ELSE state

\* Fault variant of move_generation's closure: the target index is adjusted
\* whichever way the element moves.
move_generation_f_always_adjusting(state, from, to) ==
    IF from < Len(state.sequence_order) /\ to <= Len(state.sequence_order) /\ from # to
    THEN [state EXCEPT !.sequence_order =
              InsertAt(RemoveAt(@, from), IF to > 0 THEN to - 1 ELSE to, @[from + 1])]
    ELSE state

\* move_generation's closure
move_generation_f(state, from, to) ==
    IF from < Len(state.sequence_order) /\ to <= Len(state.sequence_order) /\ from # to
    THEN [state EXCEPT !.sequence_order =
              InsertAt(RemoveAt(@, from), IF from < to THEN to - 1 ELSE to, @[from + 1])]
    ELSE state

\* update_settings' closure, for the caller's closure |s| s.key = v
update_settings_f(state, id, key, v) ==
    IF id \in DOMAIN state.generations
    THEN [state EXCEPT !.generations[id].settings[key] = v]
    ELSE state

\* update_node's closure, for the caller's closure |n| n.prompt = v
update_node_f(state, id, v) ==
    IF id \in DOMAIN state.generations
    THEN [state EXCEPT !.generations[id].prompt = v]
    ELSE state

\* f(&mut state)
seq_apply_f(state, mu) ==
    CASE mu.f = "create_and_append" -> create_and_append_f(state, mu.id, [NewNode EXCEPT !.prompt = mu.v.s])
      [] mu.f = "delete_node" -> delete_node_f(state, mu.id)
      [] mu.f = "create_node" -> create_node_f(state, mu.id, [NewNode EXCEPT !.prompt = mu.v.s])
      [] mu.f = "append_generation" -> append_generation_f(state, mu.id)
      [] mu.f = "remove_from_order" -> remove_from_order_f(state, mu.id)
      [] mu.f = "insert_at_position" -> insert_at_position_f(state, mu.v.n, mu.id)
      [] mu.f = "move_generation" -> move_generation_f(state, mu.v.n, mu.v.to)
      [] mu.f = "update_settings" -> update_settings_f(state, mu.id, mu.key, mu.v)
      [] mu.f = "update_node" -> update_node_f(state, mu.id, mu.v.s)

\* Fault variant of update_state: the cache keeps the snapshot the mutator
\* was handed, not the one it produced.
seq_update_from_stale(got, mu) ==
    IF got.val = {} THEN Fail(got.m, "Hydrate")
    ELSE Done([got.m EXCEPT !.doc = ReconcileRoot(got.m.doc, seq_apply_f(Unwrap(got.val), mu)),
                            !.cached_state = got.val], 0, 0)

seq_update_state_stale(m, mu) == seq_update_from_stale(seq_get_state(m), mu)

\* SequenceManager::update_state: get_state()?, f(&mut state), reconcile,
\* cache the mutated state.
seq_reconciled(m, state) ==
    Done([m EXCEPT !.doc = ReconcileRoot(m.doc, state), !.cached_state = {state}], 0, 0)

seq_update_from(got, mu) ==
    IF got.val = {} THEN Fail(got.m, "Hydrate")
    ELSE seq_reconciled(got.m, seq_apply_f(Unwrap(got.val), mu))

seq_update_state(m, mu) == seq_update_from(seq_get_state(m), mu)

seq_create_and_append(m, id, prompt) ==
    seq_update_state(m, Mutation("create_and_append", id, "", StrV(prompt)))

seq_delete_node(m, id) == seq_update_state(m, Mutation("delete_node", id, "", NoneV))

\* The arguments of insert_at_position and of move_generation.
Usize(index) == [t |-> "usize", s |-> "", n |-> index]
FromTo(from, to) == [t |-> "usize", s |-> "", n |-> from, to |-> to]

seq_create_node(m, id, prompt) ==
    seq_update_state(m, Mutation("create_node", id, "", StrV(prompt)))
seq_append_generation(m, id) == seq_update_state(m, Mutation("append_generation", id, "", NoneV))
seq_remove_from_order(m, id) == seq_update_state(m, Mutation("remove_from_order", id, "", NoneV))
seq_insert_at_position(m, index, id) ==
    seq_update_state(m, Mutation("insert_at_position", id, "", Usize(index)))
seq_move_generation(m, from, to) ==
    seq_update_state(m, Mutation("move_generation", "", "", FromTo(from, to)))

seq_update_settings(m, id, key, v) ==
    seq_update_state(m, Mutation("update_settings", id, key, v))

seq_update_node(m, id, prompt) ==
    seq_update_state(m, Mutation("update_node", id, "", StrV(prompt)))

\* SequenceManager::get_node: Result<Option<GenerationNode>>; [ok, val].
seq_node_in(state, id) ==
    [ok |-> state # {},
     val |-> {s.generations[id] : s \in {x \in state : id \in DOMAIN x.generations}}]

seq_get_node(m, id) == seq_node_in(seq_get_state(m).val, id)

\* Fault variant of get_obj_at_key: a missing key is always FieldNotFound.
seq_obj_of_field_only(found, key) ==
    IF found = {} THEN [obj |-> {}, err |-> "FieldNotFound"]
    ELSE IF \A o \in found : IsObject(o.val)
         THEN [obj |-> {o.id : o \in found}, err |-> ""]
         ELSE [obj |-> {}, err |-> "SchemaViolation"]

seq_get_obj_at_key_field_only(doc, parent, key) == seq_obj_of_field_only(Get(doc, parent, key), key)

\* SequenceManager::get_obj_at_key: [obj, err]; obj is the Result.
seq_obj_of(found, key) ==
    IF found = {}
    THEN [obj |-> {}, err |-> IF KeyLen(key) = 36 THEN "NodeNotFound" ELSE "FieldNotFound"]
    ELSE IF \A o \in found : IsObject(o.val)
         THEN [obj |-> {o.id : o \in found}, err |-> ""]
         ELSE [obj |-> {}, err |-> "SchemaViolation"]

seq_get_obj_at_key(doc, parent, key) == seq_obj_of(Get(doc, parent, key), key)

\* SequenceManager::get_generations_obj: [m, obj, err]; fills the topology
\* cache on a miss.
Resolved(m, res) ==
    [m |-> [m EXCEPT !.cached_generations_obj = res.obj], obj |-> res.obj, err |-> res.err]

get_generations_obj(m) ==
    IF m.cached_generations_obj # {}
    THEN [m |-> m, obj |-> m.cached_generations_obj, err |-> ""]
    ELSE Resolved(m, seq_get_obj_at_key(m.doc, ROOT, "generations"))

\* The object at a key of a resolved parent [m, obj, err]; the parent's error
\* is passed on.
WithObj(parent, res) == [m |-> parent.m, obj |-> res.obj, err |-> res.err]

child_obj(parent, key) ==
    IF parent.obj = {} THEN parent
    ELSE WithObj(parent, seq_get_obj_at_key(parent.m.doc, Unwrap(parent.obj), key))

\* SequenceManager::get_node_obj
get_node_obj(m, node_id) == child_obj(get_generations_obj(m), node_id)

\* SequenceManager::get_settings_obj
get_settings_obj(m, node_id) == child_obj(get_node_obj(m, node_id), "settings")

\* One engine put, or one engine delete, in the object a targeted setter
\* resolved; the resolution's error is the setter's.
put_at(res, key, value) ==
    IF res.obj = {} THEN Fail(res.m, res.err)
    ELSE Done([res.m EXCEPT !.doc = Put(res.m.doc, Unwrap(res.obj), key, value)], 1, 0)

\* Fault variant of the delete: clearing a key that holds no value is an
\* error.
delete_at_strict(res, key) ==
    IF res.obj = {} THEN Fail(res.m, res.err)
    ELSE IF Get(res.m.doc, Unwrap(res.obj), key) = {} THEN Fail(res.m, "FieldNotFound")
    ELSE Done([res.m EXCEPT !.doc = Delete(res.m.doc, Unwrap(res.obj), key)], 0, 1)

delete_at(res, key) ==
    IF res.obj = {} THEN Fail(res.m, res.err)
    ELSE Done([res.m EXCEPT !.doc = Delete(res.m.doc, Unwrap(res.obj), key)], 0, 1)

\* Fault variant of set_setting_value: the write also drops the topology
\* handle.
drop_handle(res) == [res EXCEPT !.m.cached_generations_obj = {}]

set_setting_value_dropping_handle(m, node_id, key, value) ==
    drop_handle(put_at(get_settings_obj([m EXCEPT !.cached_state = {}], node_id), key, value))

\* Fault variant of set_setting_value: when the settings container cannot be
\* resolved the value is put into the node, and the error is returned.
misplaced(m, node_id, key, value, res) ==
    IF res.obj = {} /\ get_node_obj(m, node_id).obj # {}
    THEN Fail(put_at(get_node_obj(m, node_id), key, value).m, res.err)
    ELSE put_at(res, key, value)

set_setting_value_misplacing(m, node_id, key, value) ==
    misplaced([m EXCEPT !.cached_state = {}], node_id, key, value,
              get_settings_obj([m EXCEPT !.cached_state = {}], node_id))

\* SequenceManager::set_setting_value
set_setting_value(m, node_id, key, value) ==
    put_at(get_settings_obj([m EXCEPT !.cached_state = {}], node_id), key, value)

\* SequenceManager::set_setting_null
set_setting_null(m, node_id, key) ==
    delete_at(get_settings_obj([m EXCEPT !.cached_state = {}], node_id), key)

\* The nine typed setters.  An Option argument is NoneV or the scalar.
set_setting_seed(m, node_id, seed) ==
    IF seed.t = "none" THEN set_setting_null(m, node_id, "seed")
    ELSE set_setting_value(m, node_id, "seed", IntV(seed.n))

set_setting_cfg(m, node_id, cfg) ==
    IF cfg.t = "none" THEN set_setting_null(m, node_id, "cfg")
    ELSE set_setting_value(m, node_id, "cfg", F64V(cfg.n))

\* Fault variant of set_setting_num_steps: the targeted path writes a key the
\* bulk path does not use.
set_setting_num_steps_misnamed(m, node_id, steps) ==
    IF steps.t = "none" THEN set_setting_null(m, node_id, "steps")
    ELSE set_setting_value(m, node_id, "steps", IntV(steps.n))

set_setting_num_steps(m, node_id, steps) ==
    IF steps.t = "none" THEN set_setting_null(m, node_id, "num_steps")
    ELSE set_setting_value(m, node_id, "num_steps", IntV(steps.n))

set_setting_model(m, node_id, model) ==
    IF model.t = "none" THEN set_setting_null(m, node_id, "model")
    ELSE set_setting_value(m, node_id, "model", StrV(model.s))

set_setting_resolution(m, node_id, resolution) ==
    IF resolution.t = "none" THEN set_setting_null(m, node_id, "resolution")
    ELSE set_setting_value(m, node_id, "resolution", IntV(resolution.n))

set_setting_width(m, node_id, width) ==
    IF width.t = "none" THEN set_setting_null(m, node_id, "width")
    ELSE set_setting_value(m, node_id, "width", IntV(width.n))

set_setting_height(m, node_id, height) ==
    IF height.t = "none" THEN set_setting_null(m, node_id, "height")
    ELSE set_setting_value(m, node_id, "height", IntV(height.n))

set_setting_duration(m, node_id, duration) ==
    IF duration.t = "none" THEN set_setting_null(m, node_id, "duration")
    ELSE set_setting_value(m, node_id, "duration", IntV(duration.n))

set_setting_fps(m, node_id, fps) ==
    IF fps.t = "none" THEN set_setting_null(m, node_id, "fps")
    ELSE set_setting_value(m, node_id, "fps", IntV(fps.n))

\* The setter of the field named key.
set_setting(m, node_id, key, v) ==
    CASE key = "seed" -> set_setting_seed(m, node_id, v)
      [] key = "cfg" -> set_setting_cfg(m, node_id, v)
      [] key = "num_steps" -> set_setting_num_steps(m, node_id, v)
      [] key = "model" -> set_setting_model(m, node_id, v)
      [] key = "resolution" -> set_setting_resolution(m, node_id, v)
      [] key = "width" -> set_setting_width(m, node_id, v)
      [] key = "height" -> set_setting_height(m, node_id, v)
      [] key = "duration" -> set_setting_duration(m, node_id, v)
      [] key = "fps" -> set_setting_fps(m, node_id, v)

\* Fault variant of set_status: the targeted write without the state-cache
\* invalidation.
seq_set_status_keeping_cache(m, node_id, status) ==
    put_at(get_node_obj(m, node_id), "status", StrV(status))

\* SequenceManager::set_status
seq_set_status(m, node_id, status) ==
    put_at(get_node_obj([m EXCEPT !.cached_state = {}], node_id), "status", StrV(status))

\* Fault variant of merge: only the state cache is invalidated.
seq_merge_keeping_handle(m, other) ==
    Done([m EXCEPT !.cached_state = {}, !.doc = Merge(m.doc, other.doc)], 0, 0)

\* SequenceManager::merge(other): the engine merge of two documents never
\* fails.
seq_merge(m, other) ==
    Done([seq_invalidate_all_caches(m) EXCEPT !.doc = Merge(m.doc, other.doc)], 0, 0)

\* AutoCommit::get_changes(their_heads) as a change-set: the sender's history
\* with the heads it is relative to.
Changes(doc, their_heads) ==
    [valid |-> TRUE, since |-> their_heads, clock |-> doc.clock, ops |-> doc.ops, elems |-> doc.elems]

\* Fault variant of generate_sync_message: an empty list of changes is
\* returned as a message.
seq_generate_sync_message_never_none(m, their_heads) == {Changes(m.doc, their_heads)}

\* SequenceManager::generate_sync_message: Option<bytes> as a set.
seq_generate_sync_message(m, their_heads) ==
    IF Covers(their_heads, m.doc.clock) THEN {} ELSE {Changes(m.doc, their_heads)}

\* Fault variant of load_incremental: a change-set that holds nothing new is
\* an error.
LoadIncremental_rejecting_known(doc, msg) ==
    IF ~msg.valid \/ Covers(doc.clock, msg.clock) THEN {}
    ELSE IF Covers(doc.clock, msg.since)
         THEN {Merge(doc, [actor |-> doc.actor, clock |-> msg.clock, ops |-> msg.ops, elems |-> msg.elems])}
         ELSE {doc}

\* AutoCommit::load_incremental: Result<doc> as a set.  Changes whose
\* dependencies the document lacks wait in its queue and change nothing.
LoadIncremental(doc, msg) ==
    IF ~msg.valid THEN {}
    ELSE IF Covers(doc.clock, msg.since)
         THEN {Merge(doc, [actor |-> doc.actor, clock |-> msg.clock, ops |-> msg.ops, elems |-> msg.elems])}
         ELSE {doc}

\* Fault variant of apply_sync_message: the caches are invalidated only once
\* the engine accepted the message.
applied_late(m, loaded) ==
    IF loaded = {} THEN Fail(m, "Automerge")
    ELSE Done([seq_invalidate_all_caches(m) EXCEPT !.doc = Unwrap(loaded)], 0, 0)

seq_apply_sync_message_on_success(m, msg) == applied_late(m, LoadIncremental(m.doc, msg))

\* The manager after load_incremental returned loaded, its caches already
\* invalidated.
applied(m, loaded) ==
    IF loaded = {} THEN Fail(m, "Automerge") ELSE Done([m EXCEPT !.doc = Unwrap(loaded)], 0, 0)

\* SequenceManager::apply_sync_message
seq_apply_sync_message(m, msg) ==
    applied(seq_invalidate_all_caches(m), LoadIncremental(m.doc, msg))

(***************************************************************************)
(* Storyboard flavor: the typed snapshot (storyboard/model.rs), with the   *)
(* derived Reconcile and Hydrate.  The tree keeps one field of each kind   *)
(* per struct: required String, required i32, Option<String>, Option<i32>, *)
(* an order list and an entity map.                                        *)
(***************************************************************************)
CharIds == {"c1", "c2"}
SceneIds == {"s1"}
ShotIds == {"sh1"}

\* Character::default(), Shot::default(), Scene::default()
NewCharacter == [name |-> "", image |-> NoneV, history |-> <<>>]
NewShot == [image_prompt |-> "", image |-> NoneV, ref_shot_id |-> NoneV]
NewScene == [title |-> "", reasoning |-> "", predicted_shots |-> 0, synopsis |-> NoneV,
             shot_order |-> <<>>, shots |-> <<>>]

\* StoryboardRoot::default()
DefaultStoryboard ==
    [title |-> "",
     processing_stages |-> [characters |-> <<>>, character_order |-> <<>>],
     scene_order |-> <<>>,
     scenes |-> <<>>]

\* A value fits an i32.
InI32(n) == WrapI32(n) = n

\* Derived Hydrate of Option<String>: a missing key or a null is None, a
\* string is Some, anything else an error.  Result as a set.
OptStringOf(got) ==
    IF got = {} THEN {NoneV}
    ELSE {IF o.val.t = "null" THEN NoneV ELSE StrV(o.val.s) :
             o \in {x \in got : x.val.t \in {"null", "str"}}}

HydrateOptString(doc, obj, key) == OptStringOf(Get(doc, obj, key))

\* Derived Hydrate of Option<i32>: an integer outside i32 is an error.
OptI32Of(got) ==
    IF got = {} THEN {NoneV}
    ELSE {IF o.val.t = "null" THEN NoneV ELSE IntV(o.val.n) :
             o \in {x \in got : x.val.t = "null" \/ (x.val.t = "int" /\ InI32(x.val.n))}}

HydrateOptI32(doc, obj, key) == OptI32Of(Get(doc, obj, key))

\* Derived Hydrate of a required i32.
HydrateI32(doc, obj, key) ==
    {o.val.n : o \in {x \in Get(doc, obj, key) : x.val.t = "int" /\ InI32(x.val.n)}}

\* Derived Hydrate of Character, Shot and Scene: Err if a field is.
CharacterOf(name, image, history) ==
    IF name = {} \/ image = {} \/ history = {} THEN {}
    ELSE {[name |-> Unwrap(name), image |-> Unwrap(image), history |-> Unwrap(history)]}

HydrateCharacter(doc, obj) ==
    CharacterOf(HydrateString(doc, obj, "name"), HydrateOptString(doc, obj, "image"),
                HydrateStrings(doc, obj, "history"))

ShotOf(image_prompt, image, ref_shot_id) ==
    IF image_prompt = {} \/ image = {} \/ ref_shot_id = {} THEN {}
    ELSE {[image_prompt |-> Unwrap(image_prompt), image |-> Unwrap(image),
           ref_shot_id |-> Unwrap(ref_shot_id)]}

HydrateShot(doc, obj) ==
    ShotOf(HydrateString(doc, obj, "image_prompt"), HydrateOptString(doc, obj, "image"),
           HydrateOptI32(doc, obj, "ref_shot_id"))

\* Derived Hydrate of HashMap<String, Shot> at a key.
HydrateShots(doc, obj, key) ==
    UNION {Collect([k \in MapKeys(doc, mo) |->
                       UNION {HydrateShot(doc, eo) : eo \in ObjAt(doc, mo, k, MapObj)}]) :
              mo \in ObjAt(doc, obj, key, MapObj)}

SceneOf(title, predicted_shots, reasoning, synopsis, shot_order, shots) ==
    IF title = {} \/ predicted_shots = {} \/ reasoning = {} \/ synopsis = {} \/ shot_order = {}
       \/ shots = {}
    THEN {}
    ELSE {[title |-> Unwrap(title), reasoning |-> Unwrap(reasoning),
           predicted_shots |-> Unwrap(predicted_shots), synopsis |-> Unwrap(synopsis),
           shot_order |-> Unwrap(shot_order), shots |-> Unwrap(shots)]}

HydrateScene(doc, obj) ==
    SceneOf(HydrateString(doc, obj, "title"), HydrateI32(doc, obj, "predicted_shots"),
            HydrateString(doc, obj, "reasoning"), HydrateOptString(doc, obj, "synopsis"),
            HydrateStrings(doc, obj, "shot_order"), HydrateShots(doc, obj, "shots"))

HydrateScenes(doc, obj, key) ==
    UNION {Collect([k \in MapKeys(doc, mo) |->
                       UNION {HydrateScene(doc, eo) : eo \in ObjAt(doc, mo, k, MapObj)}]) :
              mo \in ObjAt(doc, obj, key, MapObj)}

HydrateCharacters(doc, obj, key) ==
    UNION {Collect([k \in MapKeys(doc, mo) |->
                       UNION {HydrateCharacter(doc, eo) : eo \in ObjAt(doc, mo, k, MapObj)}]) :
              mo \in ObjAt(doc, obj, key, MapObj)}

ProcessingStagesOf(characters, character_order) ==
    IF characters = {} \/ character_order = {} THEN {}
    ELSE {[characters |-> Unwrap(characters), character_order |-> Unwrap(character_order)]}

HydrateProcessingStages(doc, obj, key) ==
    UNION {ProcessingStagesOf(HydrateCharacters(doc, po, "characters"),
                              HydrateStrings(doc, po, "character_order")) :
              po \in ObjAt(doc, obj, key, MapObj)}

\* Derived Hydrate of StoryboardRoot (autosurgeon::hydrate): Result as a set.
StoryboardOf(title, processing_stages, scene_order, scenes) ==
    IF title = {} \/ processing_stages = {} \/ scene_order = {} \/ scenes = {} THEN {}
    ELSE {[title |-> Unwrap(title), processing_stages |-> Unwrap(processing_stages),
           scene_order |-> Unwrap(scene_order), scenes |-> Unwrap(scenes)]}

HydrateStoryboard(doc) ==
    StoryboardOf(HydrateString(doc, ROOT, "title"),
                 HydrateProcessingStages(doc, ROOT, "processing_stages"),
                 HydrateStrings(doc, ROOT, "scene_order"),
                 HydrateScenes(doc, ROOT, "scenes"))

\* Derived Reconcile of Option<T>: None is written as a null scalar.
OptScalar(v) == IF v.t = "none" THEN Null ELSE v

\* Derived Reconcile of a struct into its object at = [doc, id]: the fields
\* are written one after another, in the order of the struct.
PutIn(at, key, val) ==
    IF ~Sequenced(<<at.doc>>) THEN at
    ELSE [doc |-> Put(at.doc, at.id, key, val), id |-> at.id]

StringsIn(at, key, items) ==
    IF ~Sequenced(<<at.doc>>) THEN at
    ELSE [doc |-> ReconcileSeqAt(EnsureObj(at.doc, at.id, key, ListObj), items), id |-> at.id]

ReconcileCharacter(doc, chars, id, character) ==
    StringsIn(PutIn(PutIn(EnsureObj(doc, chars, id, MapObj), "name", StrV(character.name)),
                    "image", OptScalar(character.image)),
              "history", character.history).doc

RECURSIVE ReconcileCharacters(_, _, _, _)
ReconcileCharacters(doc, chars, characters, ids) ==
    IF ids = <<>> \/ ~Sequenced(<<doc>>) THEN doc
    ELSE ReconcileCharacters(ReconcileCharacter(doc, chars, Head(ids), characters[Head(ids)]),
                             chars, characters, Tail(ids))

\* Reconcile of a HashMap field: the entries are written, then the keys the
\* map no longer has are deleted.
ReconcileCharactersAt(at, characters) ==
    IF ~Sequenced(<<at.doc>>) THEN at.doc
    ELSE PruneKeys(ReconcileCharacters(at.doc, at.id, characters, SetToSeq(DOMAIN characters)),
                   at.id, characters)

CharactersIn(at, key, characters) ==
    IF ~Sequenced(<<at.doc>>) THEN at
    ELSE [doc |-> ReconcileCharactersAt(EnsureObj(at.doc, at.id, key, MapObj), characters),
          id |-> at.id]

ReconcileShot(doc, shots, id, shot) ==
    PutIn(PutIn(PutIn(EnsureObj(doc, shots, id, MapObj),
                      "image_prompt", StrV(shot.image_prompt)),
                "image", OptScalar(shot.image)),
          "ref_shot_id", OptScalar(shot.ref_shot_id)).doc

RECURSIVE ReconcileShots(_, _, _, _)
ReconcileShots(doc, shots, entries, ids) ==
    IF ids = <<>> \/ ~Sequenced(<<doc>>) THEN doc
    ELSE ReconcileShots(ReconcileShot(doc, shots, Head(ids), entries[Head(ids)]),
                        shots, entries, Tail(ids))

ReconcileShotsAt(at, shots) ==
    IF ~Sequenced(<<at.doc>>) THEN at.doc
    ELSE PruneKeys(ReconcileShots(at.doc, at.id, shots, SetToSeq(DOMAIN shots)), at.id, shots)

ShotsIn(at, key, shots) ==
    IF ~Sequenced(<<at.doc>>) THEN at
    ELSE [doc |-> ReconcileShotsAt(EnsureObj(at.doc, at.id, key, MapObj), shots), id |-> at.id]

ReconcileScene(doc, scenes, id, scene) ==
    ShotsIn(StringsIn(PutIn(PutIn(PutIn(PutIn(EnsureObj(doc, scenes, id, MapObj),
                                              "title", StrV(scene.title)),
                                        "predicted_shots", IntV(scene.predicted_shots)),
                                  "reasoning", StrV(scene.reasoning)),
                            "synopsis", OptScalar(scene.synopsis)),
                      "shot_order", scene.shot_order),
            "shots", scene.shots).doc

RECURSIVE ReconcileScenes(_, _, _, _)
ReconcileScenes(doc, scenes, entries, ids) ==
    IF ids = <<>> \/ ~Sequenced(<<doc>>) THEN doc
    ELSE ReconcileScenes(ReconcileScene(doc, scenes, Head(ids), entries[Head(ids)]),
                         scenes, entries, Tail(ids))

ReconcileScenesAt(at, scenes) ==
    IF ~Sequenced(<<at.doc>>) THEN at.doc
    ELSE PruneKeys(ReconcileScenes(at.doc, at.id, scenes, SetToSeq(DOMAIN scenes)), at.id, scenes)

ScenesIn(at, key, scenes) ==
    IF ~Sequenced(<<at.doc>>) THEN at
    ELSE [doc |-> ReconcileScenesAt(EnsureObj(at.doc, at.id, key, MapObj), scenes), id |-> at.id]

ReconcileProcessingStages(doc, obj, key, stages) ==
    StringsIn(CharactersIn(EnsureObj(doc, obj, key, MapObj), "characters", stages.characters),
              "character_order", stages.character_order).doc

StagesIn(at, key, stages) ==
    IF ~Sequenced(<<at.doc>>) THEN at
    ELSE [doc |-> ReconcileProcessingStages(at.doc, at.id, key, stages), id |-> at.id]

\* Derived Reconcile of StoryboardRoot (autosurgeon::reconcile).
ReconcileStoryboard(doc, root) ==
    ScenesIn(StringsIn(StagesIn(PutIn([doc |-> doc, id |-> ROOT], "title", StrV(root.title)),
                                "processing_stages", root.processing_stages),
                       "scene_order", root.scene_order),
             "scenes", root.scenes).doc

(***************************************************************************)
(* StoryboardManager (storyboard/manager.rs): [doc, cached_state].  It has *)
(* no topology cache: every targeted write resolves its path from the      *)
(* root.                                                                   *)
(***************************************************************************)
sb_new(actor) ==
    [doc |-> ReconcileStoryboard(NewDoc(actor), DefaultStoryboard),
     cached_state |-> {DefaultStoryboard}]

sb_from_bytes(bytes, actor) == {[doc |-> d, cached_state |-> {}] : d \in Load(bytes, actor)}

sb_save(m) == Save(m.doc)

sb_get_heads(m) == Heads(m.doc)

\* StoryboardManager::get_state: [m, val].
sb_get_state(m) ==
    IF m.cached_state # {} THEN [m |-> m, val |-> m.cached_state]
    ELSE Hydrated(m, HydrateStoryboard(m.doc))

\* entity_crud!: create_characters' closure
create_characters_f(state, id, entity) ==
    [state EXCEPT
       !.processing_stages.characters = MapInsert(state.processing_stages.characters, id, entity),
       !.processing_stages.character_order =
           IF Contains(state.processing_stages.character_order, id)
           THEN state.processing_stages.character_order
           ELSE Append(state.processing_stages.character_order, id)]

\* entity_crud!: delete_characters' closure
delete_characters_f(state, id) ==
    [state EXCEPT
       !.processing_stages.characters = MapRemove(state.processing_stages.characters, id),
       !.processing_stages.character_order = Retain(state.processing_stages.character_order, id)]

\* create_scene's closure
create_scene_f(state, id, scene) ==
    [state EXCEPT
       !.scenes = MapInsert(state.scenes, id, scene),
       !.scene_order = IF Contains(state.scene_order, id) THEN state.scene_order
                       ELSE Append(state.scene_order, id)]

\* delete_scene's closure
delete_scene_f(state, id) ==
    [state EXCEPT !.scenes = MapRemove(state.scenes, id),
                  !.scene_order = Retain(state.scene_order, id)]

\* create_shot's closure
create_shot_f(state, scene_id, shot_id, shot) ==
    IF scene_id \in DOMAIN state.scenes
    THEN [state EXCEPT
            !.scenes[scene_id].shots = MapInsert(state.scenes[scene_id].shots, shot_id, shot),
            !.scenes[scene_id].shot_order =
                IF Contains(state.scenes[scene_id].shot_order, shot_id)
                THEN state.scenes[scene_id].shot_order
                ELSE Append(state.scenes[scene_id].shot_order, shot_id)]
    ELSE state

\* delete_shot's closure
delete_shot_f(state, scene_id, shot_id) ==
    IF scene_id \in DOMAIN state.scenes
    THEN [state EXCEPT
            !.scenes[scene_id].shots = MapRemove(state.scenes[scene_id].shots, shot_id),
            !.scenes[scene_id].shot_order = Retain(state.scenes[scene_id].shot_order, shot_id)]
    ELSE state

Min(a, b) == IF a < b THEN a ELSE b

\* Vec::truncate(len)
Truncate(seq, len) == IF Len(seq) > len THEN SubSeq(seq, 1, len) ELSE seq

\* The cap of a history list.
HistoryCap == 20

\* Fault variant of the history closure: the entry is pushed at the end.
append_history_f_pushing(state, id, entry) ==
    IF id \in DOMAIN state.processing_stages.characters
    THEN [state EXCEPT !.processing_stages.characters[id].history =
                           Truncate(Append(@, entry), HistoryCap)]
    ELSE state

\* append_to_asset_history's closure, "characters" arm: insert(0, entry),
\* then truncate(20) if the list is longer.  An AssetHistory entry is kept
\* as its id.
append_history_f(state, id, entry) ==
    IF id \in DOMAIN state.processing_stages.characters
    THEN [state EXCEPT !.processing_stages.characters[id].history =
                           Truncate(<<entry>> \o @, HistoryCap)]
    ELSE state

\* f(&mut state); mu.key carries the scene of a shot operation.
sb_apply_f(state, mu) ==
    CASE mu.f = "create_characters" ->
             create_characters_f(state, mu.id, [NewCharacter EXCEPT !.name = mu.v.s])
      [] mu.f = "delete_characters" -> delete_characters_f(state, mu.id)
      [] mu.f = "create_scene" -> create_scene_f(state, mu.id, [NewScene EXCEPT !.title = mu.v.s])
      [] mu.f = "delete_scene" -> delete_scene_f(state, mu.id)
      [] mu.f = "create_shot" ->
             create_shot_f(state, mu.key, mu.id, [NewShot EXCEPT !.image_prompt = mu.v.s])
      [] mu.f = "delete_shot" -> delete_shot_f(state, mu.key, mu.id)
      [] mu.f = "append_characters_history" -> append_history_f(state, mu.id, mu.v.s)

\* StoryboardManager::update_state
sb_reconciled(m, state) ==
    Done([m EXCEPT !.doc = ReconcileStoryboard(m.doc, state), !.cached_state = {state}], 0, 0)

sb_update_from(got, mu) ==
    IF got.val = {} THEN Fail(got.m, "Hydrate")
    ELSE sb_reconciled(got.m, sb_apply_f(Unwrap(got.val), mu))

sb_update_state(m, mu) == sb_update_from(sb_get_state(m), mu)

create_characters(m, id, name) ==
    sb_update_state(m, Mutation("create_characters", id, "", StrV(name)))

delete_characters(m, id) == sb_update_state(m, Mutation("delete_characters", id, "", NoneV))

\* entity_crud!: append_characters_history
append_characters_history(m, id, entry) ==
    sb_update_state(m, Mutation("append_characters_history", id, "", StrV(entry)))

create_scene(m, id, title) == sb_update_state(m, Mutation("create_scene", id, "", StrV(title)))

delete_scene(m, id) == sb_update_state(m, Mutation("delete_scene", id, "", NoneV))

create_shot(m, scene_id, shot_id, prompt) ==
    sb_update_state(m, Mutation("create_shot", shot_id, scene_id, StrV(prompt)))

delete_shot(m, scene_id, shot_id) ==
    sb_update_state(m, Mutation("delete_shot", shot_id, scene_id, NoneV))

\* entity_crud!: get_characters: Result<Option<Character>>; [ok, val].
sb_character_in(state, id) ==
    [ok |-> state # {},
     val |-> {x.processing_stages.characters[id] :
                x \in {y \in state : id \in DOMAIN y.processing_stages.characters}}]

get_characters(m, id) == sb_character_in(sb_get_state(m).val, id)

\* StoryboardManager::get_scene
sb_scene_in(state, id) ==
    [ok |-> state # {}, val |-> {x.scenes[id] : x \in {y \in state : id \in DOMAIN y.scenes}}]

get_scene(m, id) == sb_scene_in(sb_get_state(m).val, id)

\* StoryboardManager::get_shot
sb_shot_in(scene, shot_id) ==
    [ok |-> scene.ok,
     val |-> {x.shots[shot_id] : x \in {y \in scene.val : shot_id \in DOMAIN y.shots}}]

get_shot(m, scene_id, shot_id) == sb_shot_in(get_scene(m, scene_id), shot_id)

\* StoryboardManager::get_obj_at_key: a missing key is always FieldNotFound.
sb_obj_of(found) ==
    IF found = {} THEN [obj |-> {}, err |-> "FieldNotFound"]
    ELSE IF \A o \in found : IsObject(o.val)
         THEN [obj |-> {o.id : o \in found}, err |-> ""]
         ELSE [obj |-> {}, err |-> "SchemaViolation"]

sb_get_obj_at_key(doc, parent, key) == sb_obj_of(Get(doc, parent, key))

\* StoryboardManager::get_obj_at_path
RECURSIVE get_obj_at_path_from(_, _, _)
sb_descend(doc, step, rest) ==
    IF step.obj = {} THEN step ELSE get_obj_at_path_from(doc, Unwrap(step.obj), rest)

get_obj_at_path_from(doc, current, path) ==
    IF path = <<>> THEN [obj |-> {current}, err |-> ""]
    ELSE sb_descend(doc, sb_get_obj_at_key(doc, current, Head(path)), Tail(path))

get_obj_at_path(doc, path) == get_obj_at_path_from(doc, ROOT, path)

\* StoryboardManager::get_shot_obj
get_shot_obj(doc, scene_id, shot_id) ==
    get_obj_at_path_from(doc, ROOT, <<"scenes", scene_id, "shots", shot_id>>)

\* A targeted write of value at key of the resolved container: the state cache
\* is cleared first; Some(v) is one put, None one delete.
TargetedWrite(m, res, key, value) ==
    IF res.obj = {} THEN Fail([m EXCEPT !.cached_state = {}], res.err)
    ELSE IF value.t = "none"
         THEN Done([m EXCEPT !.cached_state = {},
                             !.doc = Delete(m.doc, Unwrap(res.obj), key)], 0, 1)
         ELSE Done([m EXCEPT !.cached_state = {},
                             !.doc = Put(m.doc, Unwrap(res.obj), key, value)], 1, 0)

\* StoryboardManager::set_title
set_title(m, title) ==
    Done([m EXCEPT !.cached_state = {}, !.doc = Put(m.doc, ROOT, "title", StrV(title))], 1, 0)

\* StoryboardManager::set_entity_field_opt_str
set_entity_field_opt_str(m, path, key, value) ==
    TargetedWrite(m, get_obj_at_path(m.doc, path), key, value)

\* entity_crud!: set_characters_image
set_characters_image(m, id, image) ==
    set_entity_field_opt_str(m, <<"processing_stages", "characters", id>>, "image", image)

\* StoryboardManager::set_scene_title
set_scene_title(m, scene_id, title) ==
    TargetedWrite(m, get_obj_at_path(m.doc, <<"scenes", scene_id>>), "title", StrV(title))

\* StoryboardManager::set_scene_field_opt_str
set_scene_field_opt_str(m, scene_id, key, value) ==
    TargetedWrite(m, get_obj_at_path(m.doc, <<"scenes", scene_id>>), key, value)

set_scene_synopsis(m, scene_id, synopsis) ==
    set_scene_field_opt_str(m, scene_id, "synopsis", synopsis)

set_scene_reasoning(m, scene_id, reasoning) ==
    set_scene_field_opt_str(m, scene_id, "reasoning", reasoning)

\* StoryboardManager::set_scene_predicted_shots: the argument is an i64.
set_scene_predicted_shots(m, scene_id, predicted_shots) ==
    TargetedWrite(m, get_obj_at_path(m.doc, <<"scenes", scene_id>>), "predicted_shots",
                  IntV(predicted_shots))

\* StoryboardManager::set_shot_field_opt_str
set_shot_field_opt_str(m, scene_id, shot_id, key, value) ==
    TargetedWrite(m, get_shot_obj(m.doc, scene_id, shot_id), key, value)

set_shot_image(m, scene_id, shot_id, image) ==
    set_shot_field_opt_str(m, scene_id, shot_id, "image", image)

\* StoryboardManager::set_shot_ref_shot_id
set_shot_ref_shot_id(m, scene_id, shot_id, ref_id) ==
    TargetedWrite(m, get_shot_obj(m.doc, scene_id, shot_id), "ref_shot_id", ref_id)

\* StoryboardManager::merge
sb_merge(m, other) ==
    Done([m EXCEPT !.cached_state = {}, !.doc = Merge(m.doc, other.doc)], 0, 0)

\* StoryboardManager::generate_sync_message
sb_generate_sync_message(m, their_heads) ==
    IF Covers(their_heads, m.doc.clock) THEN {} ELSE {Changes(m.doc, their_heads)}

\* StoryboardManager::apply_sync_message
sb_apply_sync_message(m, bytes) ==
    applied([m EXCEPT !.cached_state = {}], LoadIncremental(m.doc, bytes))

(***************************************************************************)
(* The state machine: two replicas of one document.  Replica A is built by *)
(* new(); replica B appears by from_bytes(A.save()) or by its own new().   *)
(* A run exercises one manager type and writes one probed field with its   *)
(* targeted setter.                                                        *)
(***************************************************************************)
VARIABLES
    flavor,   \* which manager the run exercises: "sequence" or "storyboard"
    probe,    \* the field the run's targeted setter writes
    mgr,      \* replica -> Option<manager>
    msg,      \* Option<bytes>: the last generated sync message
    steps,    \* operations performed so far
    last,     \* the last operation: its arguments, its result, the manager before it
    phase     \* the fork-and-merge scenario's progress; "free" outside it

vars == <<flavor, probe, mgr, msg, steps, last, phase>>

Replicas == {"A", "B"}
ActorOf(r) == IF r = "A" THEN 1 ELSE 2
Other(r) == IF r = "A" THEN "B" ELSE "A"

\* The storyboard fields with a targeted setter that the model keeps.
SbProbes == {"title", "characters.image", "scene.title", "scene.synopsis", "scene.reasoning",
             "scene.predicted_shots", "shot.image", "shot.ref_shot_id"}

\* Argument values of the operations.
SomeVals(key) ==
    CASE key = "cfg" -> {F64V(5), F64V(7)}
      [] key \in {"model", "title", "characters.image", "scene.title", "scene.synopsis",
                  "scene.reasoning", "shot.image"} -> {StrV("a"), StrV("b")}
      [] key = "scene.predicted_shots" -> {IntV(5), IntV(200)}
      [] OTHER -> {IntV(5), IntV(7)}
OptVals(key) ==
    IF key \in {"title", "scene.title", "scene.predicted_shots"} THEN SomeVals(key)
    ELSE SomeVals(key) \cup {NoneV}

\* The entities the probed storyboard setter can address.
Targets(key) ==
    CASE key = "title" -> {""}
      [] key = "characters.image" -> CharIds
      [] key \in {"shot.image", "shot.ref_shot_id"} -> ShotIds
      [] OTHER -> SceneIds

\* The probed storyboard setter.
sb_set(m, key, id, v) ==
    CASE key = "title" -> set_title(m, v.s)
      [] key = "characters.image" -> set_characters_image(m, id, v)
      [] key = "scene.title" -> set_scene_title(m, id, v.s)
      [] key = "scene.synopsis" -> set_scene_synopsis(m, id, v)
      [] key = "scene.reasoning" -> set_scene_reasoning(m, id, v)
      [] key = "scene.predicted_shots" -> set_scene_predicted_shots(m, id, v.n)
      [] key = "shot.image" -> set_shot_image(m, "s1", id, v)
      [] key = "shot.ref_shot_id" -> set_shot_ref_shot_id(m, "s1", id, v)

Live(r) == mgr[r] # {}
The(r) == CHOOSE x \in mgr[r] : TRUE

\* The operations both managers have, by the manager type of the run.
m_new(actor) == IF flavor = "sequence" THEN seq_new(actor) ELSE sb_new(actor)
m_from_bytes(bytes, actor) ==
    IF flavor = "sequence" THEN seq_from_bytes(bytes, actor) ELSE sb_from_bytes(bytes, actor)
m_save(m) == IF flavor = "sequence" THEN seq_save(m) ELSE sb_save(m)
m_get_heads(m) == IF flavor = "sequence" THEN seq_get_heads(m) ELSE sb_get_heads(m)
m_get_state(m) == IF flavor = "sequence" THEN seq_get_state(m) ELSE sb_get_state(m)
m_merge(m, other) == IF flavor = "sequence" THEN seq_merge(m, other) ELSE sb_merge(m, other)
m_generate_sync_message(m, their_heads) ==
    IF flavor = "sequence" THEN seq_generate_sync_message(m, their_heads)
    ELSE sb_generate_sync_message(m, their_heads)
m_apply_sync_message(m, bytes) ==
    IF flavor = "sequence" THEN seq_apply_sync_message(m, bytes)
    ELSE sb_apply_sync_message(m, bytes)
m_hydrate(doc) == IF flavor = "sequence" THEN HydrateRoot(doc) ELSE HydrateStoryboard(doc)

\* The record of an operation on replica r: arguments (mu is the closure of a
\* bulk operation), manager before, result.
Record(op, r, mu, pre, ok, err, puts, dels) ==
    [op |-> op, who |-> r, id |-> mu.id, key |-> mu.key, v |-> mu.v, mu |-> mu, pre |-> pre,
     ok |-> ok, err |-> err, puts |-> puts, dels |-> dels]

NoArgs == Mutation("", "", "", NoneV)

\* The common part of an operation of a live replica r that returns res.
Apply(op, r, mu, res) ==
    /\ Live(r)
    /\ steps' = steps + 1
    /\ mgr' = [mgr EXCEPT ![r] = {res.m}]
    /\ last' = Record(op, r, mu, mgr[r], res.ok, res.err, res.puts, res.dels)
    /\ UNCHANGED <<flavor, probe, msg>>

Step(op, r, mu, res) ==
    /\ steps < MaxSteps
    /\ Apply(op, r, mu, res)
    /\ UNCHANGED phase

Free == [name |-> "free", created |-> {}]

Init ==
    /\ \/ flavor = "sequence" /\ probe \in SettingKeys
       \/ flavor = "storyboard" /\ probe \in SbProbes
    /\ mgr = [r \in Replicas |-> IF r = "A" THEN {m_new(ActorOf(r))} ELSE {}]
    /\ msg = {}
    /\ steps = 0
    /\ last = Record("new", "A", NoArgs, {}, TRUE, "", 0, 0)
    /\ phase = Free

\* new() for the second replica: an independent document.
New(r) ==
    /\ ~Live(r)
    /\ steps < MaxSteps
    /\ steps' = steps + 1
    /\ mgr' = [mgr EXCEPT ![r] = {m_new(ActorOf(r))}]
    /\ last' = Record("new", r, NoArgs, {}, TRUE, "", 0, 0)
    /\ UNCHANGED <<flavor, probe, msg, phase>>

\* from_bytes(bytes) for the second replica.
FromBytes(r, bytes) ==
    /\ ~Live(r)
    /\ steps < MaxSteps
    /\ steps' = steps + 1
    /\ mgr' = [mgr EXCEPT ![r] = m_from_bytes(bytes, ActorOf(r))]
    /\ last' = Record("from_bytes", r, NoArgs, {}, bytes.valid,
                      IF bytes.valid THEN "" ELSE "Automerge", 0, 0)
    /\ UNCHANGED <<flavor, probe, msg, phase>>

GetState(r) ==
    /\ Live(r)
    /\ LET got == m_get_state(The(r))
       IN Step("get_state", r, NoArgs,
               IF got.val = {} THEN Fail(got.m, "Hydrate") ELSE Done(got.m, 0, 0))

\* Fault variant of the merge step: the state cache of the other manager is
\* dropped as well.
DoMerge_clearing_other(r) ==
    /\ Live(r) /\ Live(Other(r))
    /\ steps < MaxSteps
    /\ steps' = steps + 1
    /\ mgr' = [mgr EXCEPT ![r] = {m_merge(The(r), The(Other(r))).m},
                          ![Other(r)] = {[The(Other(r)) EXCEPT !.cached_state = {}]}]
    /\ last' = Record("merge", r, NoArgs, mgr[r], TRUE, "", 0, 0)
    /\ UNCHANGED <<flavor, probe, msg, phase>>

DoMerge(r) ==
    /\ Live(r) /\ Live(Other(r))
    /\ Step("merge", r, NoArgs, m_merge(The(r), The(Other(r))))

GenerateSyncMessage(r, their_heads) ==
    /\ Live(r)
    /\ steps < MaxSteps
    /\ steps' = steps + 1
    /\ msg' = m_generate_sync_message(The(r), their_heads)
    /\ last' = Record("generate_sync_message", r, NoArgs, mgr[r], TRUE, "", 0, 0)
    /\ UNCHANGED <<flavor, probe, mgr, phase>>

ApplySyncMessage(r, bytes) ==
    /\ Live(r)
    /\ Step("apply_sync_message", r, NoArgs, m_apply_sync_message(The(r), bytes))

SeqCreateAndAppend(r, id) ==
    /\ flavor = "sequence" /\ Live(r)
    /\ Step("create_and_append", r, Mutation("create_and_append", id, "", StrV("p")),
            seq_create_and_append(The(r), id, "p"))

SeqDeleteNode(r, id) ==
    /\ flavor = "sequence" /\ Live(r)
    /\ Step("delete_node", r, Mutation("delete_node", id, "", NoneV), seq_delete_node(The(r), id))

SeqUpdateSettings(r, id, v) ==
    /\ flavor = "sequence" /\ Live(r)
    /\ Step("update_settings", r, Mutation("update_settings", id, probe, v),
            seq_update_settings(The(r), id, probe, v))

SeqSetSetting(r, id, v) ==
    /\ flavor = "sequence" /\ Live(r)
    /\ Step("set_setting", r, Mutation("", id, probe, v), set_setting(The(r), id, probe, v))

SeqSetStatus(r, id) ==
    /\ flavor = "sequence" /\ Live(r)
    /\ Step("set_status", r, Mutation("", id, "status", StrV("done")),
            seq_set_status(The(r), id, "done"))

SbCreateCharacter(r, id) ==
    /\ flavor = "storyboard" /\ Live(r)
    /\ Step("create_characters", r, Mutation("create_characters", id, "", StrV("n")),
            create_characters(The(r), id, "n"))

SbDeleteCharacter(r, id) ==
    /\ flavor = "storyboard" /\ Live(r)
    /\ Step("delete_characters", r, Mutation("delete_characters", id, "", NoneV),
            delete_characters(The(r), id))

SbCreateScene(r, id) ==
    /\ flavor = "storyboard" /\ Live(r)
    /\ Step("create_scene", r, Mutation("create_scene", id, "", StrV("t")),
            create_scene(The(r), id, "t"))

SbDeleteScene(r, id) ==
    /\ flavor = "storyboard" /\ Live(r)
    /\ Step("delete_scene", r, Mutation("delete_scene", id, "", NoneV), delete_scene(The(r), id))

SbCreateShot(r, scene_id, id) ==
    /\ flavor = "storyboard" /\ Live(r)
    /\ Step("create_shot", r, Mutation("create_shot", id, scene_id, StrV("ip")),
            create_shot(The(r), scene_id, id, "ip"))

SbDeleteShot(r, scene_id, id) ==
    /\ flavor = "storyboard" /\ Live(r)
    /\ Step("delete_shot", r, Mutation("delete_shot", id, scene_id, NoneV),
            delete_shot(The(r), scene_id, id))

SbSet(r, id, v) ==
    /\ flavor = "storyboard" /\ Live(r)
    /\ Step("sb_set", r, Mutation("", id, probe, v), sb_set(The(r), probe, id, v))

Next ==
    \/ \E r \in Replicas : New(r)
    \/ \E r \in Replicas : \E bytes \in {m_save(x) : x \in mgr[Other(r)]} \cup {Garbage} :
          FromBytes(r, bytes)
    \/ \E r \in Replicas : GetState(r)
    \/ \E r \in Replicas : DoMerge(r)
    \/ \E r \in Replicas : \E h \in {NoHeads} \cup {m_get_heads(x) : x \in mgr[Other(r)]} :
          GenerateSyncMessage(r, h)
    \/ \E r \in Replicas, bytes \in msg \cup {Garbage} : ApplySyncMessage(r, bytes)
    \/ \E r \in Replicas, id \in NodeIds : SeqCreateAndAppend(r, id)
    \/ \E r \in Replicas, id \in NodeIds : SeqDeleteNode(r, id)
    \/ \E r \in Replicas, id \in NodeIds, v \in OptVals(probe) : SeqUpdateSettings(r, id, v)
    \/ \E r \in Replicas, id \in NodeIds, v \in OptVals(probe) : SeqSetSetting(r, id, v)
    \/ \E r \in Replicas, id \in NodeIds : SeqSetStatus(r, id)
    \/ \E r \in Replicas, id \in CharIds : SbCreateCharacter(r, id)
    \/ \E r \in Replicas, id \in CharIds : SbDeleteCharacter(r, id)
    \/ \E r \in Replicas, id \in SceneIds : SbCreateScene(r, id)
    \/ \E r \in Replicas, id \in SceneIds : SbDeleteScene(r, id)
    \/ \E r \in Replicas, sc \in SceneIds, id \in ShotIds : SbCreateShot(r, sc, id)
    \/ \E r \in Replicas, sc \in SceneIds, id \in ShotIds : SbDeleteShot(r, sc, id)
    \/ \E r \in Replicas, id \in Targets(probe), v \in OptVals(probe) : SbSet(r, id, v)

Spec == Init /\ [][Next]_vars

(***************************************************************************)
(* The fork-and-merge scenario of tests::test_merge_documents: a base      *)
(* document with one entity is saved, two managers load it, each makes     *)
(* changes of its own, then A merges B and B merges A.                     *)
(***************************************************************************)
MaxChanges == 2

BaseNode == "base"
BaseChar == "c0"

\* The base manager: new() and one create (a scene too for the storyboard,
\* so that the scene and shot setters have an entity to write to).
seq_base == seq_create_and_append(seq_new(MaxActors), BaseNode, "p").m
sb_base == create_characters(create_scene(sb_new(MaxActors), "s1", "t").m, BaseChar, "n").m
m_base == IF flavor = "sequence" THEN seq_base ELSE sb_base

\* The entity map of a snapshot, the ids either side may create and the
\* entities a targeted change may address.
Entities(state) ==
    IF flavor = "sequence" THEN state.generations ELSE state.processing_stages.characters
BaseEntities == IF flavor = "sequence" THEN {BaseNode} ELSE {BaseChar}
ForkIds == IF flavor = "sequence" THEN NodeIds ELSE CharIds
ForkTargets ==
    IF flavor = "sequence" THEN NodeIds \cup {BaseNode}
    ELSE IF probe = "characters.image" THEN CharIds \cup {BaseChar} ELSE Targets(probe)

InitFork ==
    /\ \/ flavor = "sequence" /\ probe \in SettingKeys
       \/ flavor = "storyboard" /\ probe \in SbProbes
    /\ mgr = [r \in Replicas |-> m_from_bytes(m_save(m_base), ActorOf(r))]
    /\ msg = {}
    /\ steps = 0
    /\ last = Record("from_bytes", "B", NoArgs, {}, TRUE, "", 0, 0)
    /\ phase = [name |-> "forked", created |-> {}]

\* One side creates an entity.
ForkCreate(r, id) ==
    /\ phase.name = "forked"
    /\ steps < MaxChanges
    /\ LET res == IF flavor = "sequence" THEN seq_create_and_append(The(r), id, "p")
                  ELSE create_characters(The(r), id, "n")
       IN /\ Apply(IF flavor = "sequence" THEN "create_and_append" ELSE "create_characters", r,
                   Mutation(IF flavor = "sequence" THEN "create_and_append" ELSE "create_characters",
                            id, "", StrV(IF flavor = "sequence" THEN "p" ELSE "n")),
                   res)
          /\ phase' = [phase EXCEPT !.created = IF res.ok THEN @ \cup {id} ELSE @]

\* One side writes the probed field through its targeted setter.
ForkSet(r, id, v) ==
    /\ phase.name = "forked"
    /\ steps < MaxChanges
    /\ Apply(IF flavor = "sequence" THEN "set_setting" ELSE "sb_set", r, Mutation("", id, probe, v),
             IF flavor = "sequence" THEN set_setting(The(r), id, probe, v)
             ELSE sb_set(The(r), probe, id, v))
    /\ UNCHANGED phase

\* client_a.merge(&mut client_b)
ForkMerge ==
    /\ phase.name = "forked"
    /\ Apply("merge", "A", NoArgs, m_merge(The("A"), The("B")))
    /\ phase' = [phase EXCEPT !.name = "merged"]

\* client_b.merge(&mut client_a)
ForkMergeBack ==
    /\ phase.name = "merged"
    /\ Apply("merge", "B", NoArgs, m_merge(The("B"), The("A")))
    /\ phase' = [phase EXCEPT !.name = "converged"]

NextFork ==
    \/ \E r \in Replicas, id \in ForkIds : ForkCreate(r, id)
    \/ \E r \in Replicas, id \in ForkTargets, v \in OptVals(probe) : ForkSet(r, id, v)
    \/ ForkMerge
    \/ ForkMergeBack

SpecFork == InitFork /\ [][NextFork]_vars

(***************************************************************************)
(* Properties                                                              *)
(***************************************************************************)
Targeted == {"set_setting", "set_status", "sb_set"}
Bulk == {"create_and_append", "delete_node", "update_settings", "create_characters",
         "delete_characters", "create_scene", "delete_scene", "create_shot", "delete_shot"}

\* The manager the last operation left on its replica, and the one before it.
Post == mgr[last.who]

Pre == last.pre

\* The "generations" container resolved from ROOT, as an Option.
Resolve(doc) == seq_get_obj_at_key(doc, ROOT, "generations").obj

\* The bulk mutator of the run's manager type.
m_apply_f(state, mu) ==
    IF flavor = "sequence" THEN seq_apply_f(state, mu) ELSE sb_apply_f(state, mu)

\* C1: cache coherence.  On every replica of every reachable state, a present
\* state cache equals the snapshot hydrated from the current tree, and it is
\* the snapshot get_state() returns after a save()/from_bytes() round trip.
C1_CacheCoherence ==
    \A r \in Replicas : \A m \in mgr[r] :
        m.cached_state # {} =>
            /\ m.cached_state = m_hydrate(m.doc)
            /\ \A fresh \in m_from_bytes(m_save(m), ActorOf(Other(r))) :
                  m_get_state(fresh).val = m_get_state(m).val

\* C1 witness: a get_state() that found the cache empty and filled it with a
\* snapshot other than the default one.
C1_Witness ==
    /\ last.op = "get_state" /\ last.ok
    /\ \A pre \in Pre : pre.cached_state = {}
    /\ \A m \in Post : /\ m.cached_state # {}
                       /\ m.cached_state \notin {{DefaultRoot}, {DefaultStoryboard}}

\* C2: topology-handle safety.  In a SequenceManager a present cached
\* "generations" handle is the object resolving "generations" from ROOT
\* yields, and the handle a targeted write went through was that object of
\* the document it wrote to.
C2_TopologyHandleSafe ==
    flavor = "sequence" =>
        /\ \A r \in Replicas : \A m \in mgr[r] :
              m.cached_generations_obj # {} => m.cached_generations_obj = Resolve(m.doc)
        /\ last.op \in Targeted =>
              \A pre \in Pre : get_generations_obj(pre).obj = Resolve(pre.doc)

\* C2 witness: a targeted write on the replica that new() created resolved a
\* "generations" container that the other replica created, i.e. a merge
\* changed the topology under the manager and the handle was resolved again.
C2_Witness ==
    /\ flavor = "sequence" /\ last.op \in Targeted /\ last.who = "A"
    /\ \A m \in Post : /\ m.cached_generations_obj # {}
                       /\ \A h \in m.cached_generations_obj : h[2] # ActorOf(last.who)

\* C3: merge() and apply_sync_message() leave every cache of the manager
\* empty, whether they succeed or fail.
C3_SyncInvalidates ==
    last.op \in {"merge", "apply_sync_message"} =>
        \A m \in Post :
            /\ m.cached_state = {}
            /\ flavor = "sequence" => m.cached_generations_obj = {}

\* C3 witness: an apply_sync_message() that failed on a manager whose caches
\* were all present.
C3_Witness ==
    /\ last.op = "apply_sync_message" /\ ~last.ok
    /\ \A pre \in Pre : /\ pre.cached_state # {}
                        /\ flavor = "sequence" /\ pre.cached_generations_obj # {}

\* C4: a manager from_bytes() returns has every cache empty; its first
\* get_state() hydrates the loaded document and its first handle resolution
\* resolves from ROOT.
C4_LoadedCold ==
    (last.op = "from_bytes" /\ last.ok) =>
        \A m \in Post :
            /\ m.cached_state = {}
            /\ m_get_state(m).val = m_hydrate(m.doc)
            /\ flavor = "sequence" =>
                  /\ m.cached_generations_obj = {}
                  /\ get_generations_obj(m).obj = Resolve(m.doc)

\* C4 witness: from_bytes() of the bytes of a manager whose caches were all
\* present and whose document is not the default one.
C4_Witness ==
    /\ last.op = "from_bytes" /\ last.ok /\ flavor = "sequence"
    /\ \A src \in mgr[Other(last.who)] :
          /\ src.cached_state # {} /\ src.cached_generations_obj # {}
    /\ \A m \in Post : m_hydrate(m.doc) # {DefaultRoot}

\* The engine operations a document gained and lost between two states.
Added(pre, post) == post.doc.ops \ pre.doc.ops
Removed(pre, post) == pre.doc.ops \ post.doc.ops

\* The document key the setter of a probed field writes.
KeyOf(k) ==
    CASE k \in {"characters.image", "shot.image"} -> "image"
      [] k = "scene.title" -> "title"
      [] k = "scene.synopsis" -> "synopsis"
      [] k = "scene.reasoning" -> "reasoning"
      [] k = "scene.predicted_shots" -> "predicted_shots"
      [] k = "shot.ref_shot_id" -> "ref_shot_id"
      [] OTHER -> k

\* C5: targeted setter frame effects.  A targeted setter leaves the state
\* cache empty and never clears a present topology handle; when it succeeds
\* it issued exactly one engine put of a scalar (value present) or exactly
\* one engine delete (value absent), at one key of one object.
C5_TargetedFrame ==
    last.op \in Targeted =>
        \A pre \in Pre : \A m \in Post :
            /\ m.cached_state = {}
            /\ flavor = "sequence" =>
                  (pre.cached_generations_obj # {} =>
                      m.cached_generations_obj = pre.cached_generations_obj)
            /\ last.ok =>
                  /\ Cardinality({<<o.obj, o.key>> : o \in Added(pre, m) \cup Removed(pre, m)}) <= 1
                  /\ m.doc.elems = pre.doc.elems
                  /\ IF last.v.t = "none"
                     THEN /\ last.puts = 0 /\ last.dels = 1
                          /\ Added(pre, m) = {}
                          /\ \A o \in Added(pre, m) \cup Removed(pre, m) : o.key = KeyOf(last.key)
                     ELSE /\ last.puts = 1 /\ last.dels = 0
                          /\ Cardinality(Added(pre, m)) <= 1
                          /\ \A o \in Added(pre, m) : o.val = last.v /\ o.key = KeyOf(last.key)

\* C5 witness: a successful targeted put on a SequenceManager whose two
\* caches were present, which changed the document.
C5_Witness ==
    /\ last.op \in Targeted /\ last.ok /\ flavor = "sequence" /\ last.v.t # "none"
    /\ \A pre \in Pre : /\ pre.cached_state # {} /\ pre.cached_generations_obj # {}
                        /\ \A m \in Post : Added(pre, m) # {}

\* C6: a successful update_state() leaves the state cache holding exactly
\* the snapshot the mutator produced from the snapshot get_state() returned,
\* which is the snapshot the document now hydrates to, and leaves the
\* topology handle as it was.
C6_BulkCaches ==
    (last.op \in Bulk /\ last.ok) =>
        \A pre \in Pre : \A m \in Post :
            /\ m.cached_state = {m_apply_f(s, last.mu) : s \in m_get_state(pre).val}
            /\ m.cached_state # {}
            /\ m.cached_state = m_hydrate(m.doc)
            /\ flavor = "sequence" => m.cached_generations_obj = pre.cached_generations_obj

\* C6 witness: a successful bulk write that changed the snapshot of a
\* SequenceManager holding a topology handle.
C6_Witness ==
    /\ last.op \in Bulk /\ last.ok /\ flavor = "sequence"
    /\ \A pre \in Pre : /\ pre.cached_generations_obj # {}
                        /\ \A m \in Post : m.cached_state # m_get_state(pre).val

\* C7: save/load round trip.  For every manager, from_bytes(save()) succeeds
\* and its get_state() equals the get_state() of the manager saved.
C7_SaveLoadRoundTrip ==
    \A r \in Replicas : \A m \in mgr[r] :
        /\ m_from_bytes(m_save(m), ActorOf(Other(r))) # {}
        /\ \A fresh \in m_from_bytes(m_save(m), ActorOf(Other(r))) :
              m_get_state(fresh).val = m_get_state(m).val

\* C7 witness: a replica loaded from the saved bytes of a manager whose
\* snapshot has entities and order entries, reading the same snapshot.
C7_Witness ==
    /\ last.op = "from_bytes" /\ last.ok
    /\ \A m \in Post : \A src \in mgr[Other(last.who)] :
          /\ m_get_state(m).val = m_get_state(src).val
          /\ m_get_state(m).val \notin {{}, {DefaultRoot}, {DefaultStoryboard}}

\* C8: merge convergence.  Two managers loaded from the same saved base
\* made changes of their own; after A.merge(B) followed by B.merge(A) the
\* get_state() of both succeeds and reports the same entities with the same
\* contents: the base entities and every entity either side created.
C8_MergeConvergence ==
    phase.name = "converged" =>
        \A a \in mgr["A"] : \A b \in mgr["B"] :
            /\ m_get_state(a).val # {} /\ m_get_state(b).val # {}
            /\ \A sa \in m_get_state(a).val : \A sb \in m_get_state(b).val :
                  /\ Entities(sa) = Entities(sb)
                  /\ DOMAIN Entities(sa) = BaseEntities \cup phase.created

\* C9: targeted/bulk equivalence.  After a successful set_setting_X(id, v),
\* v being Some(value) or None, get_state() returns the snapshot it returns
\* after update_settings setting settings.X = v on the manager of the same
\* prior state, and that bulk update succeeds too.
C9_TargetedBulkEquivalence ==
    (last.op = "set_setting" /\ last.ok) =>
        \A pre \in Pre : \A m \in Post :
            LET bulk == seq_update_settings(pre, last.id, last.key, last.v)
            IN /\ bulk.ok
               /\ seq_get_state(m).val # {}
               /\ seq_get_state(m).val = seq_get_state(bulk.m).val

\* C9 witness: a targeted set_setting_X(id, None) that cleared a field
\* holding a value.
C9_Witness ==
    /\ last.op = "set_setting" /\ last.ok /\ last.v = NoneV
    /\ \A pre \in Pre : /\ seq_get_node(pre, last.id).val # {}
                        /\ \A node \in seq_get_node(pre, last.id).val :
                              node.settings[last.key] # NoneV

\* What the next get of the entity of the last targeted write returns for the
\* field written, as an Option of the field (empty when the get fails or
\* finds no entity).
ReadBack(m) ==
    CASE last.op = "set_setting" ->
            {node.settings[last.key] : node \in seq_get_node(m, last.id).val}
      [] last.op = "set_status" -> {StrV(node.status) : node \in seq_get_node(m, last.id).val}
      [] last.key = "title" -> {StrV(x.title) : x \in sb_get_state(m).val}
      [] last.key = "characters.image" -> {x.image : x \in get_characters(m, last.id).val}
      [] last.key = "scene.title" -> {StrV(x.title) : x \in get_scene(m, last.id).val}
      [] last.key = "scene.synopsis" -> {x.synopsis : x \in get_scene(m, last.id).val}
      [] last.key = "scene.reasoning" -> {StrV(x.reasoning) : x \in get_scene(m, last.id).val}
      [] last.key = "scene.predicted_shots" ->
            {IntV(x.predicted_shots) : x \in get_scene(m, last.id).val}
      [] last.key = "shot.image" -> {x.image : x \in get_shot(m, "s1", last.id).val}
      [] last.key = "shot.ref_shot_id" -> {x.ref_shot_id : x \in get_shot(m, "s1", last.id).val}

\* C10: read-your-writes for targeted setters.  After a successful targeted
\* setter wrote v (Some(value) or None) to a field of an entity, the next get
\* of that entity returns v for that field; every write is one of a chain, so
\* the value read is the last one written.
C10_ReadYourWrites ==
    (last.op \in Targeted /\ last.ok) => \A m \in Post : ReadBack(m) = {last.v}

\* The run's targeted setter, by manager type.
m_set(m, key, id, v) ==
    IF flavor = "sequence" THEN set_setting(m, id, key, v) ELSE sb_set(m, key, id, v)

\* The object holding the field the last targeted write addressed, resolved
\* in doc, as an Option: empty when the entity does not exist.
Holder(doc) ==
    CASE flavor = "sequence" ->
            UNION {UNION {ObjAt(doc, no, "settings", MapObj) : no \in ObjAt(doc, go, last.id, MapObj)} :
                      go \in ObjAt(doc, ROOT, "generations", MapObj)}
      [] last.key = "title" -> {ROOT}
      [] last.key = "characters.image" ->
            get_obj_at_path(doc, <<"processing_stages", "characters", last.id>>).obj
      [] last.key \in {"shot.image", "shot.ref_shot_id"} -> get_shot_obj(doc, "s1", last.id).obj
      [] OTHER -> get_obj_at_path(doc, <<"scenes", last.id>>).obj

\* The field the last targeted write addressed holds no value in doc.
FieldAbsent(doc) == \A h \in Holder(doc) : Get(doc, h, KeyOf(last.key)) = {}

\* C11: idempotent clear.  A targeted setter called with None on an existing
\* entity whose field is already absent succeeds and leaves get_state() as
\* it was; and after any successful clear, clearing again succeeds and gives
\* the document and the get_state() of the first clear.
C11_IdempotentClear ==
    (last.op \in {"set_setting", "sb_set"} /\ last.v = NoneV) =>
        \A pre \in Pre : \A m \in Post :
            /\ (Holder(pre.doc) # {} /\ FieldAbsent(pre.doc)) =>
                  /\ last.ok
                  /\ m.doc = pre.doc
                  /\ m_get_state(m).val = m_get_state(pre).val
            /\ last.ok =>
                  /\ m_set(m, last.key, last.id, NoneV).ok
                  /\ m_set(m, last.key, last.id, NoneV).m.doc = m.doc
                  /\ m_get_state(m_set(m, last.key, last.id, NoneV).m).val = m_get_state(m).val

\* C11 witness: a second clear in a row, of a field of an existing
\* storyboard entity that the first clear made absent.
C11_Witness ==
    /\ flavor = "storyboard" /\ last.op = "sb_set" /\ last.v = NoneV /\ last.ok
    /\ \A pre \in Pre : /\ Holder(pre.doc) # {} /\ FieldAbsent(pre.doc)
                        /\ pre.cached_state = {}

\* The settings containers of a document: node id -> Option<object>.
SettingsObjOf(doc, id) ==
    UNION {UNION {ObjAt(doc, no, "settings", MapObj) : no \in ObjAt(doc, go, id, MapObj)} :
              go \in ObjAt(doc, ROOT, "generations", MapObj)}

NodeIdsOf(doc) == UNION {MapKeys(doc, go) : go \in ObjAt(doc, ROOT, "generations", MapObj)}

\* C12: sparse settings.  On every replica of every reachable state, for
\* every node and each of the nine settings keys: the key holds a value in
\* the node's settings container exactly when the hydrated field is Some, and
\* no operation of the container stores a null.
C12_SparseSettings ==
    flavor = "sequence" =>
        \A r \in Replicas : \A m \in mgr[r] : \A id \in NodeIdsOf(m.doc) :
            \A so \in SettingsObjOf(m.doc, id) :
                /\ \A k \in SettingKeys :
                      (Get(m.doc, so, k) # {}) <=> (HydrateSettings(m.doc, so)[k] # NoneV)
                /\ \A o \in m.doc.ops : o.obj = so => o.val # Null
                /\ \A root \in HydrateRoot(m.doc) :
                      root.generations[id].settings = HydrateSettings(m.doc, so)

\* C12 witness: a successful write of None, targeted or bulk, to a settings
\* field that held a value, after which the key is absent.
C12_Witness ==
    /\ flavor = "sequence" /\ last.op \in {"set_setting", "update_settings"}
    /\ last.v = NoneV /\ last.ok
    /\ \A pre \in Pre : Holder(pre.doc) # {} /\ ~FieldAbsent(pre.doc)
    /\ \A m \in Post : Holder(m.doc) # {} /\ FieldAbsent(m.doc)

(***************************************************************************)
(* Stored values.  A document a manager loads need not have been written   *)
(* by this library: another writer of the same document may have stored    *)
(* any value under a settings key.  The scenario starts from a manager     *)
(* with one node; a replica loads the bytes of a document in which a       *)
(* foreign writer put a value of any type under the probed key, and reads. *)
(***************************************************************************)
BoolV == [t |-> "bool", s |-> "", n |-> 1]

\* The values a foreign writer may store: a null, scalars of every type and
\* objects.  200, 128 and -129 are integers outside the (scaled) i32 range.
StoredVals ==
    {Null, IntV(5), IntV(200), IntV(128), IntV(-129), F64V(5), StrV("a"), BoolV, MapObj, ListObj}

\* The bytes of doc after a writer with an actor of its own put val under
\* key of the settings container of node id.
StoredBytes(doc, id, key, val) ==
    {Save(Put(d, so, key, val)) : <<d, so>> \in
        UNION {{<<x, y>> : y \in SettingsObjOf(x, id)} : x \in Load(Save(doc), MaxActors)}}

InitStored ==
    /\ flavor = "sequence" /\ probe \in SettingKeys
    /\ mgr = [r \in Replicas |->
                 IF r = "A" THEN {seq_create_and_append(seq_new(ActorOf(r)), N1, "p").m} ELSE {}]
    /\ msg = {}
    /\ steps = 0
    /\ last = Record("create_and_append", "A", NoArgs, {}, TRUE, "", 0, 0)
    /\ phase = [name |-> "stored", created |-> {}]

\* from_bytes() of a document holding a foreign value.
LoadStored(r, val) ==
    /\ Live(Other(r))
    /\ steps < MaxSteps
    /\ steps' = steps + 1
    /\ \E bytes \in StoredBytes(The(Other(r)).doc, N1, probe, val) :
          mgr' = [mgr EXCEPT ![r] = seq_from_bytes(bytes, ActorOf(r))]
    /\ last' = Record("load_stored", r, Mutation("", N1, probe, val), {}, TRUE, "", 0, 0)
    /\ UNCHANGED <<flavor, probe, msg, phase>>

NextStored ==
    \/ \E r \in Replicas, val \in StoredVals : LoadStored(r, val)
    \/ \E r \in Replicas : GetState(r)
    \/ \E r \in Replicas, v \in OptVals(probe) : SeqSetSetting(r, N1, v)

SpecStored == InitStored /\ [][NextStored]_vars

\* The scalar types a settings field reads as Some, and what it reads.
Compatible(key, val) ==
    CASE key = "cfg" -> val.t \in {"f64", "int"}
      [] key = "model" -> val.t = "str"
      [] OTHER -> val.t = "int"

ReadAs(key, val) ==
    CASE key = "cfg" -> F64V(val.n)
      [] key = "model" -> StrV(val.s)
      [] OTHER -> IntV(val.n)

\* The field's type holds the stored value without narrowing.
Fits(key, val) == key \in {"seed", "cfg", "model"} \/ InI32(val.n)

\* C13: lenient settings read.  Whatever value a settings key holds, the
\* document hydrates, and the field reads: None when the key is absent;
\* Some when it holds a scalar of a compatible type (Some of that value when
\* the field's type holds it); None when it holds a null, a scalar of an
\* incompatible type or an object.
C13_LenientRead ==
    \A r \in Replicas : \A m \in mgr[r] :
        /\ seq_get_state(m).val # {}
        /\ \A id \in NodeIdsOf(m.doc) : \A so \in SettingsObjOf(m.doc, id) :
              /\ seq_get_node(m, id).val # {}
              /\ \A k \in SettingKeys :
                    \A node \in seq_get_node(m, id).val :
                        IF Get(m.doc, so, k) = {} THEN node.settings[k] = NoneV
                        ELSE \A o \in Get(m.doc, so, k) :
                                IF Compatible(k, o.val)
                                THEN /\ node.settings[k] # NoneV
                                     /\ Fits(k, o.val) => node.settings[k] = ReadAs(k, o.val)
                                ELSE node.settings[k] = NoneV

\* C13 witness: a get_state() that succeeded on a document whose probed
\* settings key holds a null, a scalar of an incompatible type or an object.
C13_Witness ==
    /\ phase.name = "stored" /\ last.op = "get_state" /\ last.ok
    /\ \A m \in Post : \A so \in SettingsObjOf(m.doc, N1) :
          /\ Get(m.doc, so, probe) # {}
          /\ \A o \in Get(m.doc, so, probe) : ~Compatible(probe, o.val)

\* The Character and Shot objects of a storyboard document.
CharacterObjs(doc) ==
    UNION {UNION {UNION {ObjAt(doc, co, id, MapObj) : id \in MapKeys(doc, co)} :
                     co \in ObjAt(doc, po, "characters", MapObj)} :
              po \in ObjAt(doc, ROOT, "processing_stages", MapObj)}

ShotsOf(doc, sc) ==
    UNION {UNION {ObjAt(doc, ho, id, MapObj) : id \in MapKeys(doc, ho)} :
              ho \in ObjAt(doc, sc, "shots", MapObj)}

ShotObjs(doc) ==
    UNION {UNION {UNION {ShotsOf(doc, sc) : sc \in ObjAt(doc, so, id, MapObj)} :
                     id \in MapKeys(doc, so)} :
              so \in ObjAt(doc, ROOT, "scenes", MapObj)}

\* C14: sparse encoding for storyboard entities.  On every replica of every
\* reachable state, no optional field (image, ref_shot_id) of a Character
\* or a Shot is stored as a null: a None is an absent key, after a create
\* or a bulk update reconciled the entity and after a targeted setter
\* cleared the field.
C14_SparseEntities ==
    flavor = "storyboard" =>
        \A r \in Replicas : \A m \in mgr[r] :
            \A eo \in CharacterObjs(m.doc) \cup ShotObjs(m.doc) :
                \A k \in {"image", "ref_shot_id"} :
                    \A o \in Get(m.doc, eo, k) : o.val # Null

(***************************************************************************)
(* History scenario: two replicas forked from a document whose character   *)
(* carries a history built by appends; either side appends, then merges.   *)
(***************************************************************************)

\* The ids of the history entries, in the order they are appended.
Entry == <<"h1", "h2", "h3", "h4", "h5", "h6", "h7", "h8", "h9", "h10",
           "h11", "h12", "h13", "h14", "h15", "h16", "h17", "h18", "h19", "h20",
           "h21", "h22", "h23", "h24", "h25", "h26", "h27", "h28">>

\* The number of appends made before the fork.
HistoryStarts == 0 .. HistoryCap

\* The manager after appends i..k to the base character.
RECURSIVE AppendedFrom(_, _, _)
AppendedFrom(m, i, k) ==
    IF i > k \/ ~Sequenced(<<m.doc>>) THEN m
    ELSE AppendedFrom(append_characters_history(m, BaseChar, Entry[i]).m, i + 1, k)

InitHistory ==
    /\ flavor = "storyboard" /\ probe = "characters.image"
    /\ \E k \in HistoryStarts :
           /\ mgr = [r \in Replicas |->
                        sb_from_bytes(sb_save(AppendedFrom(sb_base, 1, k)), ActorOf(r))]
           /\ phase = [name |-> "forked", created |-> {}, base |-> k,
                       appended |-> [r \in Replicas |-> 0]]
    /\ msg = {}
    /\ steps = 0
    /\ last = Record("from_bytes", "B", NoArgs, {}, TRUE, "", 0, 0)

\* append_characters_history(id, entry) on replica r, with a fresh entry.
AppendHistory(r, id) ==
    /\ steps < MaxSteps
    /\ Apply("append_characters_history", r,
             Mutation("append_characters_history", id, "", StrV(Entry[phase.base + steps + 1])),
             append_characters_history(The(r), id, Entry[phase.base + steps + 1]))
    /\ phase' = [phase EXCEPT !.appended[r] = IF id = BaseChar THEN @ + 1 ELSE @]

NextHistory ==
    \/ \E r \in Replicas, id \in {BaseChar, "c1"} : AppendHistory(r, id)
    \/ ForkMerge
    \/ ForkMergeBack

SpecHistory == InitHistory /\ [][NextHistory]_vars

\* The history of character id on manager m, as get_state() returns it.
HistoryOf(m, id) ==
    UNION {IF id \in DOMAIN s.processing_stages.characters
           THEN {s.processing_stages.characters[id].history} ELSE {}
           : s \in sb_get_state(m).val}

\* C15: history append.  A successful append_characters_history(id, entry) on
\* an existing character whose history was h leaves the history
\* <<entry>> \o the first min(Len(h), 19) elements of h; on a missing id it
\* succeeds and changes no history.  While a replica's history is modified by
\* appends alone, k appends leave min(k, 20) entries, the last appended first.
C15_HistoryAppend ==
    /\ last.op = "append_characters_history" =>
           \A pre \in Pre : \A m \in Post :
               /\ last.ok
               /\ sb_get_state(m).val # {}
               /\ \A h \in HistoryOf(pre, last.id) :
                      HistoryOf(m, last.id)
                          = {<<last.v.s>> \o SubSeq(h, 1, Min(Len(h), HistoryCap - 1))}
               /\ HistoryOf(pre, last.id) = {} => HistoryOf(m, last.id) = {}
               /\ \A id \in {BaseChar, "c1"} \ {last.id} :
                      HistoryOf(m, id) = HistoryOf(pre, id)
    /\ phase.name = "forked" =>
           \A r \in Replicas : \A m \in mgr[r] : \A h \in HistoryOf(m, BaseChar) :
               /\ Len(h) = Min(phase.base + phase.appended[r], HistoryCap)
               /\ (last.op = "append_characters_history" /\ last.who = r
                       /\ last.id = BaseChar) => h[1] = last.v.s

C15_Witness ==
    /\ last.op = "append_characters_history" /\ last.id = BaseChar /\ last.ok
    /\ phase.name = "forked"
    /\ phase.base + phase.appended[last.who] = 22
    /\ \A m \in Post : \A h \in HistoryOf(m, BaseChar) :
           Len(h) = HistoryCap /\ h[1] = last.v.s /\ h[HistoryCap] = Entry[3]

\* C16: history cap across replicas.  In every reachable state, merged states
\* included, the history of a character that is modified by
\* append_characters_history alone has at most 20 entries on every replica.
C16_HistoryCap ==
    \A r \in Replicas : \A m \in mgr[r] : \A h \in HistoryOf(m, BaseChar) :
        Len(h) <= HistoryCap

\* The snapshot the document of manager m hydrates to, as an Option.
DocState(m) == IF flavor = "sequence" THEN HydrateRoot(m.doc) ELSE HydrateStoryboard(m.doc)

\* The collection and the order list the last create or delete addressed; a
\* shot operation on a missing scene addresses an empty collection.
CollOf(s) ==
    CASE last.op \in {"create_and_append", "delete_node"} -> s.generations
      [] last.op \in {"create_characters", "delete_characters"} -> s.processing_stages.characters
      [] last.op \in {"create_scene", "delete_scene"} -> s.scenes
      [] OTHER -> IF last.key \in DOMAIN s.scenes THEN s.scenes[last.key].shots ELSE <<>>

OrderOf(s) ==
    CASE last.op \in {"create_and_append", "delete_node"} -> s.sequence_order
      [] last.op \in {"create_characters", "delete_characters"} ->
             s.processing_stages.character_order
      [] last.op \in {"create_scene", "delete_scene"} -> s.scene_order
      [] OTHER -> IF last.key \in DOMAIN s.scenes THEN s.scenes[last.key].shot_order ELSE <<>>

Deletes == {"delete_node", "delete_characters", "delete_scene", "delete_shot"}
Creates == {"create_and_append", "create_characters", "create_scene", "create_shot"}

\* C17: delete consistency.  A delete on a manager whose snapshot s can be
\* read succeeds; the document then hydrates to a snapshot (the one
\* get_state() returns) in which the id is no key of the collection and no
\* element of the order list, the other entities keep their values and the
\* other order entries their relative positions; if the id was absent from
\* both, the snapshot is s.
C17_DeleteConsistency ==
    last.op \in Deletes =>
        \A pre \in Pre : \A m \in Post : \A s \in m_get_state(pre).val :
            /\ last.ok
            /\ DocState(m) # {}
            /\ m_get_state(m).val = DocState(m)
            /\ \A t \in DocState(m) :
                   /\ last.id \notin DOMAIN CollOf(t)
                   /\ ~Contains(OrderOf(t), last.id)
                   /\ CollOf(t) = [k \in (DOMAIN CollOf(s)) \ {last.id} |-> CollOf(s)[k]]
                   /\ OrderOf(t) = SelectSeq(OrderOf(s), LAMBDA x : x # last.id)
                   /\ (last.id \notin DOMAIN CollOf(s) /\ ~Contains(OrderOf(s), last.id))
                          => t = s

C17_Witness ==
    /\ last.op = "delete_node" /\ last.ok
    /\ \A pre \in Pre : \A s \in m_get_state(pre).val :
           /\ Len(s.sequence_order) = 2 /\ s.sequence_order[1] = last.id
           /\ last.id \in DOMAIN s.generations
    /\ \A m \in Post : \A t \in DocState(m) :
           Len(t.sequence_order) = 1 /\ DOMAIN t.generations = {t.sequence_order[1]}

\* The entity the last create was called with.
EntityOf ==
    CASE last.op = "create_and_append" -> [NewNode EXCEPT !.prompt = last.v.s]
      [] last.op = "create_characters" -> [NewCharacter EXCEPT !.name = last.v.s]
      [] last.op = "create_scene" -> [NewScene EXCEPT !.title = last.v.s]
      [] OTHER -> [NewShot EXCEPT !.image_prompt = last.v.s]

\* A create_shot on a missing scene addresses nothing.
Addressed(s) == last.op = "create_shot" => last.key \in DOMAIN s.scenes

MaxIndex == 2
Positions == 0..MaxIndex

InitOrder ==
    /\ flavor = "sequence" /\ probe = "cfg"
    /\ mgr = [r \in Replicas |-> IF r = "A" THEN {seq_new(ActorOf(r))} ELSE {}]
    /\ msg = {}
    /\ steps = 0
    /\ last = Record("new", "A", NoArgs, {}, TRUE, "", 0, 0)
    /\ phase = [name |-> "order", created |-> {}]

SeqCreateNode(r, id) ==
    /\ Live(r)
    /\ Step("create_node", r, Mutation("create_node", id, "", StrV("p")),
            seq_create_node(The(r), id, "p"))

SeqAppendGeneration(r, id) ==
    /\ Live(r)
    /\ Step("append_generation", r, Mutation("append_generation", id, "", NoneV),
            seq_append_generation(The(r), id))

SeqRemoveFromOrder(r, id) ==
    /\ Live(r)
    /\ Step("remove_from_order", r, Mutation("remove_from_order", id, "", NoneV),
            seq_remove_from_order(The(r), id))

SeqInsertAtPosition(r, index, id) ==
    /\ Live(r)
    /\ Step("insert_at_position", r, Mutation("insert_at_position", id, "", Usize(index)),
            seq_insert_at_position(The(r), index, id))

SeqMoveGeneration(r, from, to) ==
    /\ Live(r)
    /\ Step("move_generation", r, Mutation("move_generation", "", "", FromTo(from, to)),
            seq_move_generation(The(r), from, to))

NextOrder ==
    \/ \E id \in NodeIds : SeqCreateAndAppend("A", id)
    \/ \E id \in NodeIds : SeqCreateNode("A", id)
    \/ \E id \in NodeIds : SeqAppendGeneration("A", id)
    \/ \E index \in Positions, id \in NodeIds : SeqInsertAtPosition("A", index, id)
    \/ \E from \in Positions, to \in Positions : SeqMoveGeneration("A", from, to)
    \/ \E id \in NodeIds : SeqRemoveFromOrder("A", id)
    \/ \E id \in NodeIds : SeqDeleteNode("A", id)

SpecOrder == InitOrder /\ [][NextOrder]_vars

\* No element occurs twice.
Unique(seq) == \A i \in DOMAIN seq : \A j \in DOMAIN seq : seq[i] = seq[j] => i = j

\* C19: unique order entries on one manager.  After any sequence of
\* create_and_append, create_node, append_generation, insert_at_position,
\* move_generation, remove_from_order and delete_node on a new
\* SequenceManager, every operation has succeeded and sequence_order, as
\* the document hydrates it and as get_state() returns it, holds no id twice.
C19_UniqueOrder ==
    \A m \in mgr["A"] :
        /\ last.ok
        /\ DocState(m) # {}
        /\ seq_get_state(m).val = DocState(m)
        /\ \A t \in DocState(m) : Unique(t.sequence_order)

C19_Witness ==
    /\ last.op = "insert_at_position" /\ last.ok /\ last.v.n = 0
    /\ \A pre \in Pre : \A s \in seq_get_state(pre).val : \A m \in Post : \A t \in DocState(m) :
           /\ Len(s.sequence_order) = 2
           /\ s.sequence_order[2] = last.id
           /\ t.sequence_order = s.sequence_order

\* The order list of the run's entity collection, read from the document.
OrderList(doc) ==
    IF flavor = "sequence" THEN HydrateStrings(doc, ROOT, "sequence_order")
    ELSE UNION {HydrateStrings(doc, po, "character_order")
                : po \in ObjAt(doc, ROOT, "processing_stages", MapObj)}

\* C20: unique order entries across replicas.  After two managers forked
\* from the same base have made their changes and merged in both
\* directions, the order list of either document holds every id created on
\* a fork exactly once.
C20_UniqueAcrossReplicas ==
    phase.name = "converged" =>
        \A r \in Replicas : \A m \in mgr[r] : \A o \in OrderList(m.doc) :
            \A id \in phase.created : Cardinality({i \in DOMAIN o : o[i] = id}) = 1

(***************************************************************************)
(* Reference scenario: one SequenceManager whose nodes are added by        *)
(* create_and_append and removed by delete_node alone.                     *)
(***************************************************************************)

SeqUpdateNode(r, id) ==
    /\ flavor = "sequence" /\ Live(r)
    /\ Step("update_node", r, Mutation("update_node", id, "", StrV("q")),
            seq_update_node(The(r), id, "q"))

NextRefs ==
    \/ \E id \in NodeIds : SeqCreateAndAppend("A", id)
    \/ \E id \in NodeIds : SeqDeleteNode("A", id)
    \/ \E from \in Positions, to \in Positions : SeqMoveGeneration("A", from, to)
    \/ \E id \in NodeIds : SeqUpdateNode("A", id)
    \/ \E id \in NodeIds, v \in OptVals(probe) : SeqUpdateSettings("A", id, v)
    \/ \E id \in NodeIds, v \in OptVals(probe) : SeqSetSetting("A", id, v)
    \/ \E id \in NodeIds : SeqSetStatus("A", id)

SpecRefs == InitOrder /\ [][NextRefs]_vars

\* C21: order references exist.  On one SequenceManager that adds nodes by
\* create_and_append and removes them by delete_node alone, with
\* move_generation, update_node, update_settings and the targeted setters
\* interleaved, the document always hydrates, and every id of sequence_order
\* is a key of generations, in the hydrated snapshot and in the one
\* get_state() returns.
C21_OrderReferencesExist ==
    \A m \in mgr["A"] :
        /\ DocState(m) # {}
        /\ \A t \in DocState(m) \cup seq_get_state(m).val :
               \A i \in DOMAIN t.sequence_order : t.sequence_order[i] \in DOMAIN t.generations

C21_Witness ==
    /\ last.op = "move_generation" /\ last.ok
    /\ \A pre \in Pre : \A s \in seq_get_state(pre).val : \A m \in Post : \A t \in DocState(m) :
           /\ Len(t.sequence_order) = 2
           /\ t.sequence_order # s.sequence_order
           /\ DOMAIN t.generations = NodeIds

Receiver == m_from_bytes(m_save(m_base), MaxActors)
MsgOf(r) == m_generate_sync_message(The(r), m_get_heads(m_base))
ApplyOpt(m, bytes) == IF bytes = {} THEN m ELSE m_apply_sync_message(m, Unwrap(bytes)).m

\* The receiver after the change-sets of x and then of y, and after merging
\* x and then y.
Relayed(rcv, x, y) == ApplyOpt(ApplyOpt(rcv, MsgOf(x)), MsgOf(y))
MergedBoth(rcv, x, y) == m_merge(m_merge(rcv, The(x)).m, The(y)).m

\* C23: change-set order independence.  For a manager loaded from the base
\* document and the two forks in any reachable state, every change-set is
\* accepted, and applying the two change-sets in either order or merging the
\* two forks in either order gives the same document and the same
\* get_state() result.
C23_OrderIndependence ==
    \A rcv \in Receiver :
        /\ \A r \in Replicas : \A bytes \in MsgOf(r) :
               /\ m_apply_sync_message(rcv, bytes).ok
               /\ m_apply_sync_message(ApplyOpt(rcv, MsgOf(Other(r))), bytes).ok
        /\ Relayed(rcv, "A", "B").doc = Relayed(rcv, "B", "A").doc
        /\ MergedBoth(rcv, "A", "B").doc = MergedBoth(rcv, "B", "A").doc
        /\ Relayed(rcv, "A", "B").doc = MergedBoth(rcv, "A", "B").doc
        /\ m_get_state(Relayed(rcv, "A", "B")).val = m_get_state(Relayed(rcv, "B", "A")).val
        /\ m_get_state(MergedBoth(rcv, "A", "B")).val = m_get_state(MergedBoth(rcv, "B", "A")).val
        /\ m_get_state(Relayed(rcv, "A", "B")).val = m_get_state(MergedBoth(rcv, "B", "A")).val

\* Both forks made a change before any merge, and the receiver reads a
\* snapshot that neither change-set alone gives.
C23_Witness ==
    /\ phase.name = "forked" /\ steps = 2 /\ last.ok
    /\ MsgOf("A") # {} /\ MsgOf("B") # {}
    /\ \A rcv \in Receiver :
           /\ m_get_state(Relayed(rcv, "A", "B")).val # {}
           /\ m_get_state(Relayed(rcv, "A", "B")).val # m_get_state(ApplyOpt(rcv, MsgOf("A"))).val
           /\ m_get_state(Relayed(rcv, "A", "B")).val # m_get_state(ApplyOpt(rcv, MsgOf("B"))).val

\* The last merge or change-set, applied once more to manager m.
Again(m) ==
    IF last.op = "merge" THEN m_merge(m, The(Other(last.who)))
    ELSE m_apply_sync_message(m, Unwrap(msg))

\* C24: re-applying is harmless.  After a successful apply_sync_message or
\* merge, applying the same change-set (merging the same peer) once more
\* succeeds and leaves the document and the get_state() result as they were
\* after the first application, whether or not get_state() filled the state
\* cache in between.
C24_ReapplyHarmless ==
    (last.op \in {"apply_sync_message", "merge"} /\ last.ok) =>
        \A m \in Post :
            /\ Again(m).ok
            /\ Again(m).m.doc = m.doc
            /\ m_get_state(Again(m).m).val = m_get_state(m).val
            /\ Again(m_get_state(m).m).ok
            /\ Again(m_get_state(m).m).m.doc = m.doc
            /\ m_get_state(Again(m_get_state(m).m).m).val = m_get_state(m).val

C24_Witness ==
    /\ last.op = "merge" /\ last.ok
    /\ \A pre \in Pre : \A m \in Post :
           /\ m_get_state(m).val # {}
           /\ m_get_state(m).val # m_get_state(pre).val
           /\ m_get_state(m).m.cached_state # {}
           /\ Again(m_get_state(m).m).m.cached_state = {}

(***************************************************************************)
(* Resolution scenario: a SequenceManager loaded from a document in which  *)
(* a writer outside the manager replaced or removed a container on the     *)
(* path of the targeted setters.                                           *)
(***************************************************************************)

\* The values the outside writer stores in place of a container.
Replacements == {Null, IntV(5), StrV("a"), MapObj}

\* The document the outside writer starts from: new(), create_and_append(N1).
Written == Load(Save(seq_create_and_append(seq_new(MaxActors), N1, "p").m.doc), MaxActors)

\* The container keys on the path root / generations / node / settings.
PathKeys(doc) ==
    {<<ROOT, "generations">>}
    \cup UNION {{<<go, id>> : id \in NodeIds} : go \in ObjAt(doc, ROOT, "generations", MapObj)}
    \cup UNION {{<<no, "settings">> : no \in ObjAt(doc, go, N1, MapObj)}
                : go \in ObjAt(doc, ROOT, "generations", MapObj)}

Damaged ==
    UNION {{d} \cup {Put(d, at[1], at[2], val) : at \in PathKeys(d), val \in Replacements}
               \cup {Delete(d, at[1], at[2]) : at \in PathKeys(d)}
           : d \in Written}

InitResolve ==
    /\ flavor = "sequence" /\ probe \in {"cfg", "model"}
    /\ \E d \in Damaged :
          mgr = [r \in Replicas |-> IF r = "A" THEN seq_from_bytes(Save(d), ActorOf(r)) ELSE {}]
    /\ msg = {}
    /\ steps = 0
    /\ last = Record("from_bytes", "A", NoArgs, {}, TRUE, "", 0, 0)
    /\ phase = [name |-> "resolve", created |-> {}]

NextResolve ==
    \/ \E id \in NodeIds, v \in OptVals(probe) : SeqSetSetting("A", id, v)
    \/ \E id \in NodeIds : SeqSetStatus("A", id)
    \/ \E id \in NodeIds : SeqCreateAndAppend("A", id)
    \/ GetState("A")

SpecResolve == InitResolve /\ [][NextResolve]_vars

\* The keys the last targeted setter resolves, from the root.
PathOf ==
    IF last.op = "set_status" THEN <<"generations", last.id>>
    ELSE <<"generations", last.id, "settings">>

\* The error of resolving path from container obj, "" if every key holds an
\* object: the first key that is missing or holds no object decides.
RECURSIVE Walk(_, _, _)
Walk(doc, obj, path) ==
    IF path = <<>> THEN ""
    ELSE IF Get(doc, obj, Head(path)) = {}
         THEN IF Head(path) = U2 THEN "NodeNotFound" ELSE "FieldNotFound"
         ELSE IF \E o \in Get(doc, obj, Head(path)) : o.val.t \notin {"map", "list"}
              THEN "SchemaViolation"
              ELSE Walk(doc, Unwrap(Get(doc, obj, Head(path))).id, Tail(path))

\* C25: container resolution in the SequenceManager.  A targeted setter
\* succeeds exactly when every key on its path holds an object; otherwise it
\* fails with the error of the first key that does not: SchemaViolation if
\* the key holds a value that is no object, NodeNotFound if the key is
\* missing and 36 characters long, FieldNotFound if it is missing and of any
\* other length.
C25_ResolutionErrors ==
    last.op \in {"set_setting", "set_status"} =>
        \A pre \in Pre :
            /\ last.err = Walk(pre.doc, ROOT, PathOf)
            /\ last.ok <=> Walk(pre.doc, ROOT, PathOf) = ""
            /\ last.err \in {"", "SchemaViolation", "NodeNotFound", "FieldNotFound"}
            /\ last.err = "NodeNotFound" => last.id = U2

C25_Witness ==
    /\ last.op = "set_setting" /\ last.err = "NodeNotFound" /\ last.id = U2
    /\ \A pre \in Pre : /\ Walk(pre.doc, ROOT, <<"generations">>) = ""
                        /\ Walk(pre.doc, ROOT, <<"generations", N1, "settings">>)
                               = "SchemaViolation"

(***************************************************************************)
(* Storyboard resolution scenario: the targeted setters addressed to       *)
(* entities that exist and to identifiers that do not, among them a        *)
(* 36-character one.                                                       *)
(***************************************************************************)

InitSbResolve ==
    /\ flavor = "storyboard" /\ probe \in SbProbes
    /\ mgr = [r \in Replicas |->
                 IF r = "A" THEN sb_from_bytes(sb_save(sb_base), ActorOf(r)) ELSE {}]
    /\ msg = {}
    /\ steps = 0
    /\ last = Record("from_bytes", "A", NoArgs, {}, TRUE, "", 0, 0)
    /\ phase = [name |-> "resolve", created |-> {}]

NextSbResolve ==
    \/ \E id \in Targets(probe) \cup {BaseChar, U2}, v \in OptVals(probe) : SbSet("A", id, v)
    \/ \E id \in CharIds : SbCreateCharacter("A", id)
    \/ \E sc \in SceneIds, id \in ShotIds : SbCreateShot("A", sc, id)
    \/ \E id \in SceneIds : SbDeleteScene("A", id)

SpecSbResolve == InitSbResolve /\ [][NextSbResolve]_vars

\* C26: container resolution in the StoryboardManager.  A targeted setter
\* addressed to an entity id that its collection does not hold fails with
\* NodeNotFound if the id is 36 characters long and with FieldNotFound
\* otherwise; addressed to an entity that exists it succeeds.
C26_SbResolutionErrors ==
    (last.op = "sb_set" /\ last.key # "title") =>
        \A pre \in Pre :
            IF Holder(pre.doc) # {} THEN last.ok
            ELSE /\ ~last.ok
                 /\ last.err = IF last.id = U2 THEN "NodeNotFound" ELSE "FieldNotFound"

\* C27: new().  A manager returned by new() caches the default snapshot; its
\* tree hydrates to that snapshot, which has no entities and empty order
\* lists; get_state() returns it; the topology cache is empty.
C27_NewManager ==
    last.op = "new" =>
        \A m \in Post :
            /\ m.cached_state # {}
            /\ DocState(m) = m.cached_state
            /\ m_get_state(m).val = m.cached_state
            /\ flavor = "sequence" =>
                   /\ m.cached_state = {DefaultRoot}
                   /\ m.cached_generations_obj = {}
                   /\ \A s \in DocState(m) :
                          s.sequence_order = <<>> /\ DOMAIN s.generations = {}
            /\ flavor = "storyboard" =>
                   /\ m.cached_state = {DefaultStoryboard}
                   /\ \A s \in DocState(m) :
                          /\ s.scene_order = <<>> /\ DOMAIN s.scenes = {}
                          /\ s.processing_stages.character_order = <<>>
                          /\ DOMAIN s.processing_stages.characters = {}

C27_Witness ==
    /\ last.op = "new" /\ last.who = "B" /\ steps > 0
    /\ \A m \in Post : DocState(m) # {} /\ m.doc.ops # {}

\* The manager after a read: pre itself, or pre with its empty state cache
\* filled with the snapshot its document hydrates to.
AfterRead(pre) ==
    IF pre.cached_state # {} THEN {pre}
    ELSE {pre, [pre EXCEPT !.cached_state = DocState(pre)]}

\* C28: read-only operations.  A generate_sync_message step changes no
\* manager; the save() and get_heads() a from_bytes or generate_sync_message
\* step calls on the other replica leave that replica as it was; a get_state
\* step leaves the document and the topology cache as they were and the state
\* cache too unless it was empty, in which case it may hold the hydrated
\* snapshot afterwards; a second get_state() returns the same snapshot and
\* changes nothing; the getters return the entities of that snapshot.
C28_ReadOnly ==
    [][/\ last'.op = "generate_sync_message" => mgr' = mgr
       /\ last'.op = "from_bytes" => mgr'[Other(last'.who)] = mgr[Other(last'.who)]
       /\ last'.op = "get_state" =>
              /\ mgr'[Other(last'.who)] = mgr[Other(last'.who)]
              /\ \A pre \in mgr[last'.who] : \A m \in mgr'[last'.who] :
                    /\ m \in AfterRead(pre)
                    /\ m_get_state(m).val = m_get_state(pre).val
                    /\ m_get_state(m).m \in AfterRead(m)
                    /\ last'.ok => m_get_state(m).m = m
                    /\ m_save(m) = m_save(pre) /\ m_get_heads(m) = m_get_heads(pre)
                    /\ flavor = "sequence" =>
                           \A id \in NodeIds : seq_get_node(m, id) = seq_get_node(pre, id)
                    /\ flavor = "storyboard" =>
                           \A id \in CharIds : get_characters(m, id) = get_characters(pre, id)
      ]_vars

C28_Witness ==
    /\ last.op = "get_state" /\ last.ok /\ flavor = "sequence"
    /\ \A pre \in Pre : \A m \in Post :
           /\ pre.cached_state = {} /\ pre.cached_generations_obj # {}
           /\ m.cached_state # {} /\ m.cached_generations_obj = pre.cached_generations_obj
           /\ seq_get_node(m, N1).val # {}

\* The last operation was asked for an effect it could not perform on
\* snapshot s: an update of a node that does not exist, or a move with an
\* index outside the order list.
Impossible(s) ==
    \/ last.op \in {"update_node", "update_settings"} /\ last.id \notin DOMAIN s.generations
    \/ /\ last.op = "move_generation"
       /\ (last.v.n >= Len(s.sequence_order) \/ last.v.to > Len(s.sequence_order))

\* C29: no silent failure.  An update_node or update_settings addressed to
\* a node that does not exist, and a move_generation given an index outside
\* the order list, return a typed failure.
C29_TypedFailure ==
    \A pre \in Pre : \A s \in seq_get_state(pre).val :
        Impossible(s) =>
            /\ ~last.ok
            /\ last.err \in {"NodeNotFound", "FieldNotFound", "IndexOutOfBounds"}

\* C30: a failed targeted write changes nothing.  When set_setting_* or
\* set_status fails, the error is one of the three resolution errors, no put
\* and no delete was issued, the document is the one before the call, the
\* state cache is empty, the topology cache is as before or newly holds the
\* "generations" handle, and get_state() returns what it returned before.
C30_FailedWriteFrame ==
    (last.op \in {"set_setting", "set_status"} /\ ~last.ok) =>
        \A pre \in Pre : \A m \in Post :
            /\ last.err \in {"NodeNotFound", "FieldNotFound", "SchemaViolation"}
            /\ last.puts = 0 /\ last.dels = 0
            /\ m.doc = pre.doc
            /\ m.cached_state = {}
            /\ \/ m.cached_generations_obj = pre.cached_generations_obj
               \/ pre.cached_generations_obj = {} /\ m.cached_generations_obj = Resolve(pre.doc)
            /\ seq_get_state(m).val = seq_get_state(pre).val

C30_Witness ==
    /\ last.op = "set_setting" /\ last.err = "FieldNotFound" /\ last.v # NoneV
    /\ \A pre \in Pre : \A m \in Post :
           /\ pre.cached_state # {} /\ m.cached_state = {}
           /\ seq_get_state(m).val = pre.cached_state
           /\ \A s \in pre.cached_state : DOMAIN s.generations # {}

\* The snapshot s with the field the last targeted write addressed holding v.
Rewritten(s, v) ==
    CASE last.op = "set_setting" -> [s EXCEPT !.generations[last.id].settings[last.key] = v]
      [] last.op = "set_status" -> [s EXCEPT !.generations[last.id].status = v]
      [] last.key = "title" -> [s EXCEPT !.title = v]
      [] last.key = "characters.image" ->
             [s EXCEPT !.processing_stages.characters[last.id].image = v]
      [] last.key = "scene.title" -> [s EXCEPT !.scenes[last.id].title = v]
      [] last.key = "scene.synopsis" -> [s EXCEPT !.scenes[last.id].synopsis = v]
      [] last.key = "scene.reasoning" -> [s EXCEPT !.scenes[last.id].reasoning = v]
      [] last.key = "scene.predicted_shots" -> [s EXCEPT !.scenes[last.id].predicted_shots = v]
      [] last.key = "shot.image" -> [s EXCEPT !.scenes["s1"].shots[last.id].image = v]
      [] OTHER -> [s EXCEPT !.scenes["s1"].shots[last.id].ref_shot_id = v]

\* C31: targeted write frame.  After a successful targeted setter on a
\* manager whose get_state() returned s, get_state() returns a snapshot that
\* differs from s at most in the field written: all other fields of the
\* entity, all other entities and all order lists are those of s.
C31_TargetedWriteFrame ==
    (last.op \in Targeted /\ last.ok) =>
        \A pre \in Pre : \A m \in Post : \A s \in m_get_state(pre).val :
            /\ m_get_state(m).val # {}
            /\ \A t \in m_get_state(m).val : Rewritten(t, NoneV) = Rewritten(s, NoneV)

\* The same frame for every targeted setter but the two whose write can
\* leave the document unreadable.
TargetedFrameOfReadable ==
    (last.op \in Targeted /\ last.ok) =>
        \A pre \in Pre : \A m \in Post : \A s \in m_get_state(pre).val :
            /\ last.key \notin {"scene.reasoning", "scene.predicted_shots"}
                   => m_get_state(m).val # {}
            /\ \A t \in m_get_state(m).val : Rewritten(t, NoneV) = Rewritten(s, NoneV)

\* C33: the document stays hydratable.  On a StoryboardManager whose
\* get_state() succeeds, every manager operation that returns success leaves
\* a manager whose get_state() succeeds.
C33_StaysHydratable ==
    (flavor = "storyboard" /\ last.ok) =>
        \A m \in Post :
            (\A pre \in Pre : sb_get_state(pre).val # {}) => sb_get_state(m).val # {}

\* The same for every operation but the two scene setters.
OthersStayHydratable ==
    (flavor = "storyboard" /\ last.ok
        /\ ~(last.op = "sb_set" /\ last.key \in {"scene.reasoning", "scene.predicted_shots"})) =>
        \A m \in Post :
            (\A pre \in Pre : sb_get_state(pre).val # {}) =>
                (sb_get_state(m).val # {} \/ last.op \in {"merge", "apply_sync_message", "from_bytes"})

(***************************************************************************)
(* The fork scenario with every kind of local operation: the two managers  *)
(* loaded from the base also delete entities and update settings through   *)
(* update_state before they exchange their changes.                        *)
(***************************************************************************)
\* One side deletes an entity (a node, or a character).
ForkDelete(r, id) ==
    /\ phase.name = "forked"
    /\ steps < MaxChanges
    /\ Apply(IF flavor = "sequence" THEN "delete_node" ELSE "delete_characters", r,
             Mutation(IF flavor = "sequence" THEN "delete_node" ELSE "delete_characters",
                      id, "", NoneV),
             IF flavor = "sequence" THEN seq_delete_node(The(r), id)
             ELSE delete_characters(The(r), id))
    /\ UNCHANGED phase

\* One side deletes the scene of the base.
ForkDeleteScene(r) ==
    /\ phase.name = "forked" /\ flavor = "storyboard"
    /\ steps < MaxChanges
    /\ Apply("delete_scene", r, Mutation("delete_scene", "s1", "", NoneV),
             delete_scene(The(r), "s1"))
    /\ UNCHANGED phase

\* One side sets the status of a node.
ForkSetStatus(r, id) ==
    /\ phase.name = "forked" /\ flavor = "sequence"
    /\ steps < MaxChanges
    /\ Apply("set_status", r, Mutation("", id, "status", StrV("done")),
             seq_set_status(The(r), id, "done"))
    /\ UNCHANGED phase

\* One side updates the probed setting through update_settings.
ForkUpdate(r, id, v) ==
    /\ phase.name = "forked" /\ flavor = "sequence"
    /\ steps < MaxChanges
    /\ Apply("update_settings", r, Mutation("update_settings", id, probe, v),
             seq_update_settings(The(r), id, probe, v))
    /\ UNCHANGED phase

NextRace ==
    \/ \E r \in Replicas, id \in ForkIds : ForkCreate(r, id)
    \/ \E r \in Replicas, id \in ForkTargets, v \in OptVals(probe) : ForkSet(r, id, v)
    \/ \E r \in Replicas, id \in ForkIds \cup BaseEntities : ForkDelete(r, id)
    \/ \E r \in Replicas : ForkDeleteScene(r)
    \/ \E r \in Replicas, id \in {BaseNode, U2} : ForkSetStatus(r, id)
    \/ \E r \in Replicas, id \in {BaseNode, U2}, v \in OptVals(probe) : ForkUpdate(r, id, v)
    \/ ForkMerge
    \/ ForkMergeBack

SpecRace == InitFork /\ [][NextRace]_vars

\* Manager rcv after applying what snd generates for the heads given, and
\* the heads a receiver may announce: its current heads or the empty list.
Exchange(rcv, snd, heads) == ApplyOpt(rcv, m_generate_sync_message(snd, heads))
HeadsFor(m) == {m_get_heads(m), NoHeads}

\* Receiver b took the changes of a, then a took the changes of that b.
Returned(a, b, h, back) == Exchange(a, Exchange(b, a, h), back)

\* C32: sync completeness.  In every state of the two forks before a merge,
\* for either direction: the receiver b, having applied the message of a for
\* b's heads or for no heads, holds the document merge(a) gives it, reads a
\* snapshot, and reads the snapshot a reads when b had no change of its own;
\* after a then applied the message of that b, both read the same snapshot.
C32_SyncCompleteness ==
    phase.name = "forked" =>
        \A r \in Replicas : \A a \in mgr[r] : \A b \in mgr[Other(r)] : \A h \in HeadsFor(b) :
            /\ Exchange(b, a, h).doc = m_merge(b, a).m.doc
            /\ m_get_state(Exchange(b, a, h)).val # {}
            /\ Covers(m_get_heads(a), m_get_heads(b))
                   => m_get_state(Exchange(b, a, h)).val = m_get_state(a).val
            /\ \A back \in HeadsFor(a) :
                   m_get_state(Returned(a, b, h, back)).val = m_get_state(Exchange(b, a, h)).val

\* The same exchange, comparing the results of get_state() whether they are
\* snapshots or hydration errors.
ExchangeConverges ==
    phase.name = "forked" =>
        \A r \in Replicas : \A a \in mgr[r] : \A b \in mgr[Other(r)] : \A h \in HeadsFor(b) :
            /\ Exchange(b, a, h).doc = m_merge(b, a).m.doc
            /\ (m_get_state(a).val # {} /\ m_get_state(b).val # {})
                   => m_get_state(Exchange(b, a, h)).val # {}
            /\ Covers(m_get_heads(a), m_get_heads(b))
                   => m_get_state(Exchange(b, a, h)).val = m_get_state(a).val
            /\ \A back \in HeadsFor(a) :
                   /\ Returned(a, b, h, back).doc.ops = Exchange(b, a, h).doc.ops
                   /\ m_get_state(Returned(a, b, h, back)).val
                          = m_get_state(Exchange(b, a, h)).val

(***************************************************************************)
(* The ordering scenario on a sequence that already holds up to three      *)
(* generations: the operations that edit sequence_order or generations     *)
(* alone, on a manager built by zero to three create_and_append calls.     *)
(***************************************************************************)
OrderIds == <<BaseNode, N1, U2>>

RECURSIVE Appended(_)
Appended(n) ==
    IF n = 0 THEN seq_new(ActorOf("A"))
    ELSE seq_create_and_append(Appended(n - 1), OrderIds[n], "p").m

MovePositions == 0 .. (MaxIndex + 1)

InitMove ==
    /\ flavor = "sequence" /\ probe = "cfg"
    /\ \E n \in 0 .. Len(OrderIds) :
           mgr = [r \in Replicas |-> IF r = "A" THEN {Appended(n)} ELSE {}]
    /\ msg = {}
    /\ steps = 0
    /\ last = Record("new", "A", NoArgs, {}, TRUE, "", 0, 0)
    /\ phase = [name |-> "move", created |-> {}]

NextMove ==
    \/ \E from \in MovePositions, to \in MovePositions : SeqMoveGeneration("A", from, to)
    \/ \E index \in MovePositions, id \in NodeIds : SeqInsertAtPosition("A", index, id)
    \/ \E id \in NodeIds : SeqCreateNode("A", id)
    \/ \E id \in NodeIds : SeqAppendGeneration("A", id)
    \/ \E id \in NodeIds : SeqRemoveFromOrder("A", id)
    \/ \E id \in NodeIds : SeqSetStatus("A", id)
    \/ GetState("A")

SpecMove == InitMove /\ [][NextMove]_vars

\* The number of times x occurs in seq.
Count(seq, x) == Cardinality({i \in DOMAIN seq : seq[i] = x})

\* The index (from 0) at which move_generation(from, to) leaves the element.
Landing(from, to) == IF from < to THEN to - 1 ELSE to

C35_InsertAtPosition ==
    last.op = "insert_at_position" =>
        \A pre \in Pre : \A m \in Post : \A s \in seq_get_state(pre).val :
            /\ last.ok
            /\ seq_get_state(m).val # {}
            /\ \A t \in seq_get_state(m).val :
                   /\ t.generations = s.generations
                   /\ IF /\ last.v.n <= Len(s.sequence_order)
                         /\ \A i \in DOMAIN s.sequence_order : s.sequence_order[i] # last.id
                      THEN /\ Len(t.sequence_order) = Len(s.sequence_order) + 1
                           /\ t.sequence_order[last.v.n + 1] = last.id
                           /\ \A i \in DOMAIN s.sequence_order :
                                  t.sequence_order[IF i <= last.v.n THEN i ELSE i + 1]
                                      = s.sequence_order[i]
                      ELSE t.sequence_order = s.sequence_order

\* C35 witness: an identifier without a node inserted between two others.
C35_Witness ==
    /\ last.op = "insert_at_position" /\ last.ok /\ last.v.n = 1
    /\ \A pre \in Pre : \A s \in seq_get_state(pre).val : \A m \in Post :
           /\ Len(s.sequence_order) = 2
           /\ last.id \notin DOMAIN s.generations
           /\ \A t \in seq_get_state(m).val :
                  /\ t.sequence_order = <<s.sequence_order[1], last.id, s.sequence_order[2]>>
                  /\ last.id \notin DOMAIN t.generations

\* C36: create_node leaves the order alone.  On a manager whose get_state()
\* returned s, create_node(id, node) succeeds; get_state() then returns s
\* with node under id in generations and the sequence_order of s, and
\* get_node(id) returns node.  append_generation(id) then leaves generations
\* alone and puts id at the end of the order unless the order holds it.
C36_CreateNodeUnordered ==
    /\ last.op = "create_node" =>
           \A pre \in Pre : \A m \in Post : \A s \in seq_get_state(pre).val :
               /\ last.ok
               /\ seq_get_state(m).val =
                      {[s EXCEPT !.generations =
                            [k \in (DOMAIN s.generations) \cup {last.id} |->
                                IF k = last.id THEN [NewNode EXCEPT !.prompt = last.v.s]
                                ELSE s.generations[k]]]}
               /\ seq_get_node(m, last.id).val = {[NewNode EXCEPT !.prompt = last.v.s]}
    /\ last.op = "append_generation" =>
           \A pre \in Pre : \A m \in Post : \A s \in seq_get_state(pre).val :
               /\ last.ok
               /\ seq_get_state(m).val =
                      {[s EXCEPT !.sequence_order =
                            IF Count(s.sequence_order, last.id) > 0 THEN @
                            ELSE Append(@, last.id)]}

\* C36 witness: create_node stored a node that did not exist, on a sequence
\* with an order of two, and the node is readable but not in the order.
C36_Witness ==
    /\ last.op = "create_node" /\ last.ok
    /\ \A pre \in Pre : \A s \in seq_get_state(pre).val : \A m \in Post :
           /\ last.id \notin DOMAIN s.generations
           /\ Len(s.sequence_order) = 2
           /\ seq_get_node(m, last.id).val # {}
           /\ \A t \in seq_get_state(m).val :
                  /\ last.id \in DOMAIN t.generations
                  /\ Count(t.sequence_order, last.id) = 0

\* C37: merge changes only the receiver.  Across every merge step the other
\* manager is the same: its document, its heads, its saved bytes and its
\* caches; a state cache it holds is still the hydration of its document.
C37_MergeLeavesOther ==
    [][last'.op = "merge" =>
           /\ mgr'[Other(last'.who)] = mgr[Other(last'.who)]
           /\ \A o \in mgr[Other(last'.who)] : \A x \in mgr'[Other(last'.who)] :
                  /\ x.doc = o.doc
                  /\ m_get_heads(x) = m_get_heads(o)
                  /\ m_save(x) = m_save(o)
                  /\ x.cached_state = o.cached_state
                  /\ x.cached_state # {} => x.cached_state = DocState(x)]_vars

\* C37 witness: a merge that changed the receiver's document while the
\* other manager held a state cache.
C37_Witness ==
    /\ last.op = "merge" /\ last.ok
    /\ \A pre \in Pre : \A m \in Post : m.doc.ops # pre.doc.ops
    /\ \E o \in mgr[Other(last.who)] : o.cached_state # {} /\ o.cached_state = DocState(o)

\* The two forks after A merged B and B then merged A.
MergedA == m_merge(The("A"), The("B")).m
MergedB == m_merge(The("B"), MergedA).m

\* Manager m reads a snapshot without the base node; manager m reads a
\* snapshot whose base node is not the one of the base document.
BaseDeleted(m) ==
    /\ seq_get_state(m).val # {}
    /\ \A s \in seq_get_state(m).val : BaseNode \notin DOMAIN s.generations
BaseWritten(m) ==
    \E s \in seq_get_state(m).val : \E b \in seq_get_state(seq_base).val :
        /\ BaseNode \in DOMAIN s.generations
        /\ s.generations[BaseNode] # b.generations[BaseNode]

\* Before any merge, one fork deleted the base node and the other wrote a
\* field of it: the write came last, or the delete did.
DeleteWriteRace ==
    /\ flavor = "sequence" /\ phase.name = "forked" /\ last.ok /\ last.id = BaseNode
    /\ \/ last.op \in {"set_status", "set_setting"} /\ BaseDeleted(The(Other(last.who)))
       \/ last.op = "delete_node" /\ BaseWritten(The(Other(last.who)))

\* C38: concurrent delete versus targeted write.  When one fork deleted node
\* n and the other, from the same base, wrote a field of n, then after A
\* merged B and B merged A get_state() succeeds on both, both snapshots are
\* equal, and n is neither in generations nor in sequence_order.
C38_DeleteWins ==
    DeleteWriteRace =>
        /\ seq_get_state(MergedA).val # {}
        /\ seq_get_state(MergedB).val = seq_get_state(MergedA).val
        /\ \A t \in seq_get_state(MergedA).val :
               /\ BaseNode \notin DOMAIN t.generations
               /\ Count(t.sequence_order, BaseNode) = 0

\* C38 witness: the write of a value came after the other fork's delete, and
\* the write is in the merged document.
C38_Witness ==
    /\ DeleteWriteRace
    /\ last.op = "set_setting" /\ last.v # NoneV
    /\ \A pre \in Pre : \A m \in Post :
           /\ Added(pre, m) # {}
           /\ Added(pre, m) \subseteq MergedA.doc.ops
           /\ Added(pre, m) \subseteq MergedB.doc.ops
    /\ seq_get_state(MergedB).val # {}

\* The six settings fields of type Option<i32>, and i32 values to write: the
\* two ends of the (scaled) range, zero and -1.
I32Keys == SettingKeys \ {"seed", "cfg", "model"}
I32Samples == {-128, -1, 0, 127}

\* r is n narrowed to an i32: in range and congruent to n modulo 2^w.
Narrowed(n, r) == r >= -128 /\ r <= 127 /\ (r - n) % 256 = 0

\* C39: 32-bit settings narrowing.  For the six i32 fields: a document whose
\* key holds an integer n hydrates, and the field reads Some of n narrowed to
\* an i32; every i32 value written through the field's setter is read back
\* unchanged.
C39_Narrowing ==
    probe \in I32Keys =>
        \A r \in Replicas : \A m \in mgr[r] : \A so \in SettingsObjOf(m.doc, N1) :
            /\ \A o \in Get(m.doc, so, probe) :
                   o.val.t = "int" =>
                       /\ seq_get_node(m, N1).val # {}
                       /\ \A node \in seq_get_node(m, N1).val :
                              /\ node.settings[probe].t = "int"
                              /\ Narrowed(o.val.n, node.settings[probe].n)
            /\ \A v \in I32Samples :
                   /\ set_setting(m, N1, probe, IntV(v)).ok
                   /\ \A node \in seq_get_node(set_setting(m, N1, probe, IntV(v)).m, N1).val :
                          node.settings[probe] = IntV(v)
                   /\ seq_get_node(set_setting(m, N1, probe, IntV(v)).m, N1).val # {}

\* C39 witness: a get_state() on a document whose i32 key holds an integer
\* outside the range, which reads a different integer.
C39_Witness ==
    /\ probe \in I32Keys /\ last.op = "get_state" /\ last.ok
    /\ \A m \in Post : \A so \in SettingsObjOf(m.doc, N1) :
           /\ Get(m.doc, so, probe) # {}
           /\ \A o \in Get(m.doc, so, probe) : \A node \in seq_get_node(m, N1).val :
                  /\ o.val.t = "int"
                  /\ node.settings[probe].t = "int"
                  /\ node.settings[probe].n # o.val.n
====
